---------------------------- MODULE Spec2Model ----------------------------
(***************************************************************************)
(* A model of musicpd-rs: the nom-based wire parsers, the command list     *)
(* serializer and decoder, the incremental Buffer and the blocking Client. *)
(*                                                                         *)
(* Bytes are one-character strings and a byte slice (&[u8]) is a sequence  *)
(* of them.  A parser takes the slice it is given and returns an IResult:  *)
(*   [t |-> "Done", rest |-> <remaining slice>, o |-> <output>]            *)
(*   [t |-> "Error", kind |-> <nom ErrorKind>]                             *)
(*   [t |-> "Incomplete"]                                                  *)
(* Option<T> is a sequence of length 0 (None) or 1 (Some).                 *)
(***************************************************************************)
EXTENDS Integers, Sequences, FiniteSets, TLC

Done(rest, o) == [t |-> "Done", rest |-> rest, o |-> o]
Error(kind)   == [t |-> "Error", kind |-> kind]
Incomplete    == [t |-> "Incomplete"]

None    == <<>>
Some(v) == <<v>>

Min(a, b) == IF a < b THEN a ELSE b

\* `let v = ...;` followed by the code K that uses v: K applied to v.
With(v, K(_)) == K(v)

\* i[n..] and i[..n] of a slice (0-based bounds as in Rust).
SliceFrom(i, n) == SubSeq(i, n + 1, Len(i))
SliceTo(i, n)   == SubSeq(i, 1, n)

RECURSIVE Concat(_)
\* The concatenation of a sequence of byte strings.
Concat(ss) == IF ss = <<>> THEN <<>> ELSE Head(ss) \o Concat(Tail(ss))

---------------------------------------------------------------------------
(* nom 2.x primitives, as the macros of the source expand.                 *)

\* A Compare without the partial match: an input shorter than the tag does
\* not match.  C9_PrefixIncomplete does not hold of it.
Compare_no_partial(i, tg) ==
    IF Len(i) >= Len(tg) /\ SliceTo(i, Len(tg)) = tg THEN "Ok" ELSE "Error"

\* nom's Compare for byte slices: the common prefix decides; an input that
\* is a proper prefix of the tag is Incomplete.
Compare(i, tg) ==
    LET m == Min(Len(i), Len(tg)) IN
    IF SliceTo(i, m) # SliceTo(tg, m) THEN "Error"
    ELSE IF m < Len(tg) THEN "Incomplete"
    ELSE "Ok"

\* tag!(tg)
Tag(i, tg) ==
    LET c == Compare(i, tg) IN
    IF c = "Ok" THEN Done(SliceFrom(i, Len(tg)), tg)
    ELSE IF c = "Incomplete" THEN Incomplete
    ELSE Error("Tag")

IsLineEndByte(c) == c = "\r" \/ c = "\n"

\* Index (0-based) of the first byte of i satisfying the line-end test, or
\* Len(i) when there is none.
LineEndIndex(i) ==
    IF \E k \in 1..Len(i) : IsLineEndByte(i[k])
    THEN (CHOOSE k \in 1..Len(i) :
            IsLineEndByte(i[k]) /\ \A j \in 1..(k - 1) : ~IsLineEndByte(i[j])) - 1
    ELSE Len(i)

\* nom::not_line_ending: everything up to the first "\r\n" or "\n"; an
\* input without any line ending is Done with the whole input.
NotLineEnding(i) ==
    LET idx == LineEndIndex(i) IN
    IF idx = Len(i) THEN Done(<<>>, i)
    ELSE IF i[idx + 1] = "\r" /\ Compare(SliceFrom(i, idx), <<"\r", "\n">>) # "Ok"
         THEN IF Compare(SliceFrom(i, idx), <<"\r", "\n">>) = "Incomplete"
              THEN Incomplete
              ELSE Error("Tag")
    ELSE Done(SliceFrom(i, idx), SliceTo(i, idx))

\* nom::line_ending: "\n" or "\r\n".
LineEnding(i) ==
    LET c == Compare(i, <<"\n">>) IN
    IF c = "Ok" THEN Done(SliceFrom(i, 1), SliceTo(i, 1))
    ELSE IF c = "Incomplete" THEN Incomplete
    ELSE LET d == Compare(i, <<"\r", "\n">>) IN
         IF d = "Ok" THEN Done(SliceFrom(i, 2), SliceTo(i, 2))
         ELSE IF d = "Incomplete" THEN Incomplete
         ELSE Error("CrLf")

DigitBytes == <<"0", "1", "2", "3", "4", "5", "6", "7", "8", "9">>

IsDigit(c) == \E d \in 1..10 : DigitBytes[d] = c

DigitVal(c) == (CHOOSE d \in 1..10 : DigitBytes[d] = c) - 1

\* Length of the maximal leading run of ASCII digits of i.
DigitRun(i) ==
    IF \E k \in 1..Len(i) : ~IsDigit(i[k])
    THEN (CHOOSE k \in 1..Len(i) :
            ~IsDigit(i[k]) /\ \A j \in 1..(k - 1) : IsDigit(i[j])) - 1
    ELSE Len(i)

\* nom::digit (nom 2.x): one or more ASCII digits; no digit at the front,
\* also on empty input, is an Error.
Digit(i) ==
    LET n == DigitRun(i) IN
    IF n = 0 THEN Error("Digit")
    ELSE Done(SliceFrom(i, n), SliceTo(i, n))

---------------------------------------------------------------------------
(* Number conversions (str::parse) of util::parse_bytes.                   *)

AllDigits(s) == \A k \in 1..Len(s) : IsDigit(s[k])

RECURSIVE StripZeros(_)
\* A digit string without its leading zeros ("000" becomes "0").
StripZeros(s) ==
    IF Len(s) > 1 /\ s[1] = "0" THEN StripZeros(Tail(s)) ELSE s

RECURSIVE DigitsLeq(_, _)
\* a <= b for two digit strings of the same length.
DigitsLeq(a, b) ==
    IF a = <<>> THEN TRUE
    ELSE IF DigitVal(a[1]) < DigitVal(b[1]) THEN TRUE
    ELSE IF DigitVal(a[1]) > DigitVal(b[1]) THEN FALSE
    ELSE DigitsLeq(Tail(a), Tail(b))

\* Whether the number written by digit string s is at most the one written
\* by max (both without sign).
NumLeq(s, max) ==
    LET a == StripZeros(s) IN
    Len(a) < Len(max) \/ (Len(a) = Len(max) /\ DigitsLeq(a, max))

RECURSIVE DigitsValue(_, _)
DigitsValue(s, acc) ==
    IF s = <<>> THEN acc ELSE DigitsValue(Tail(s), acc * 10 + DigitVal(s[1]))

\* The value of a digit string.
ToNat(s) == DigitsValue(StripZeros(s), 0)

U8Max  == <<"2", "5", "5">>
U32Max == <<"4", "2", "9", "4", "9", "6", "7", "2", "9", "5">>
U64Max == <<"1", "8", "4", "4", "6", "7", "4", "4", "0", "7",
            "3", "7", "0", "9", "5", "5", "1", "6", "1", "5">>
I64Max == <<"9", "2", "2", "3", "3", "7", "2", "0", "3", "6",
            "8", "5", "4", "7", "7", "5", "8", "0", "7">>
I64MinAbs == <<"9", "2", "2", "3", "3", "7", "2", "0", "3", "6",
               "8", "5", "4", "7", "7", "5", "8", "0", "8">>

\* <unsigned>::from_str: an optional '+', then one or more digits, the
\* value within the type's range.  Ok is Some(value), Err is None.
ParseUnsigned(s, max) ==
    LET d == IF s # <<>> /\ s[1] = "+" THEN Tail(s) ELSE s IN
    IF d # <<>> /\ AllDigits(d) /\ NumLeq(d, max) THEN Some(ToNat(d)) ELSE None

\* i64::from_str: an optional '+' or '-', then one or more digits.
ParseI64(s) ==
    LET neg == s # <<>> /\ s[1] = "-"
        d   == IF s # <<>> /\ (s[1] = "+" \/ s[1] = "-") THEN Tail(s) ELSE s
    IN  IF d # <<>> /\ AllDigits(d) /\ NumLeq(d, IF neg THEN I64MinAbs ELSE I64Max)
        THEN Some(IF neg THEN 0 - ToNat(d) ELSE ToNat(d))
        ELSE None

\* util::parse_bytes::<T>
parse_bytes_u8(s)  == ParseUnsigned(s, U8Max)
parse_bytes_u32(s) == ParseUnsigned(s, U32Max)
parse_bytes_u64(s) == ParseUnsigned(s, U64Max)
parse_bytes_i64(s) == ParseI64(s)

RECURSIVE TrimTrailingZeros(_)
TrimTrailingZeros(s) ==
    IF s # <<>> /\ s[Len(s)] = "0" THEN TrimTrailingZeros(SliceTo(s, Len(s) - 1))
    ELSE s

\* f32::from_str on plain decimal literals: an optional sign, digits, an
\* optional '.' and digits, with a digit on at least one side.  The value is
\* kept as the exact decimal [neg, whole, frac] (frac without trailing
\* zeros); literals with an exponent, "inf" and "nan" are not drawn by the
\* model and are treated as Err.
parse_bytes_f32(s) ==
    LET signed == s # <<>> /\ (s[1] = "+" \/ s[1] = "-")
        neg == s # <<>> /\ s[1] = "-"
        d   == IF signed THEN Tail(s) ELSE s
        w   == DigitRun(d)
        r   == SliceFrom(d, w)
        hasDot == r # <<>> /\ r[1] = "."
        f   == IF hasDot THEN Tail(r) ELSE <<>>
        ok  == /\ (r = <<>> \/ hasDot)
               /\ AllDigits(f)
               /\ w + Len(f) > 0
        whole == IF w = 0 THEN 0 ELSE ToNat(SliceTo(d, w))
        frac  == TrimTrailingZeros(f)
    IN  IF ok
        THEN Some([neg |-> neg /\ (whole # 0 \/ frac # <<>>),
                   whole |-> whole, frac |-> frac])
        ELSE None

---------------------------------------------------------------------------
(* Wire primitives (protocol/mod.rs).                                      *)

\* semver's Version::parse on the bytes the model draws (digits, '.' and
\* letters): <major>.<minor>.<patch>, each a decimal numeral without a
\* leading zero.  Ok is Some([major, minor, patch]), Err is None.
IsNumeral(s) == s # <<>> /\ AllDigits(s) /\ (Len(s) = 1 \/ s[1] # "0")

\* Index (1-based) of the first '.' of s at or after position from, or 0.
DotIndex(s, from) ==
    IF \E k \in from..Len(s) : s[k] = "."
    THEN CHOOSE k \in from..Len(s) :
            s[k] = "." /\ \A j \in from..(k - 1) : s[j] # "."
    ELSE 0

\* A conversion that takes any text for a version.
VersionParse_any(s) == Some([major |-> 0, minor |-> 0, patch |-> 0])

VersionParse(s) ==
    LET d1 == DotIndex(s, 1)
        d2 == IF d1 = 0 THEN 0 ELSE DotIndex(s, d1 + 1)
        major == SubSeq(s, 1, d1 - 1)
        minor == SubSeq(s, d1 + 1, d2 - 1)
        patch == SubSeq(s, d2 + 1, Len(s))
    IN  IF d1 # 0 /\ d2 # 0 /\ IsNumeral(major) /\ IsNumeral(minor) /\ IsNumeral(patch)
        THEN Some([major |-> ToNat(major), minor |-> ToNat(minor),
                   patch |-> ToNat(patch)])
        ELSE None

TagOkMpd == <<"O","K"," ","M","P","D"," ">>

\* named!(parse_handshake<Version>, ...): the version is converted from
\* what not_line_ending returned, before line_ending is looked for.
parse_handshake(i) ==
    LET r1 == Tag(i, TagOkMpd) IN
    IF r1.t # "Done" THEN r1 ELSE
    LET r2 == NotLineEnding(r1.rest) IN
    IF r2.t # "Done" THEN r2 ELSE
    LET v == VersionParse(r2.o) IN
    IF v = None THEN Error("MapRes") ELSE
    LET r3 == LineEnding(r2.rest) IN
    IF r3.t # "Done" THEN r3 ELSE Done(r3.rest, v[1])

TagOk     == <<"O","K","\n">>
TagListOk == <<"l","i","s","t","_","O","K","\n">>

\* named!(parse_ok, tag!(b"OK\n"))
parse_ok(i) == Tag(i, TagOk)

\* A parse_list_ok that lets a missing marker pass.  C1_Framing does not
\* hold of it.
parse_list_ok_optional(i) ==
    With(Tag(i, TagListOk), LAMBDA r : IF r.t = "Error" THEN Done(i, <<>>) ELSE r)

\* named!(parse_list_ok, tag!(b"list_OK\n"))
parse_list_ok(i) == Tag(i, TagListOk)

\* CmdErrorType::from_code: the code bytes are matched literally.
ErrorCodes ==
    << <<<<"1">>, "NotList">>, <<<<"2">>, "Arg">>, <<<<"3">>, "Password">>,
       <<<<"4">>, "Permission">>, <<<<"5">>, "Unknown">>,
       <<<<"5", "0">>, "NoExist">>, <<<<"5", "1">>, "PlaylistMax">>,
       <<<<"5", "2">>, "System">>, <<<<"5", "3">>, "PlaylistLoad">>,
       <<<<"5", "4">>, "UpdateAlready">>, <<<<"5", "5">>, "PlayerSync">>,
       <<<<"5", "6">>, "Exist">> >>

CmdErrorType_from_code(code) ==
    IF \E k \in 1..Len(ErrorCodes) : ErrorCodes[k][1] = code
    THEN Some(ErrorCodes[CHOOSE k \in 1..Len(ErrorCodes) :
                            ErrorCodes[k][1] = code][2])
    ELSE None

\* is_not!(set) (nom 2.x): the bytes before the first byte of the set; a
\* byte of the set at the front is an Error, and an input without any is
\* Done with the whole input.
IsNot(i, set) ==
    IF \E k \in 1..Len(i) : i[k] \in set
    THEN With((CHOOSE k \in 1..Len(i) :
                 i[k] \in set /\ \A j \in 1..(k - 1) : i[j] \notin set) - 1,
              LAMBDA n : IF n = 0 THEN Error("IsNot")
                         ELSE Done(SliceFrom(i, n), SliceTo(i, n)))
    ELSE Done(<<>>, i)

\* parse_error: "ACK [<code>@<index>] {<name>} <message>" and a line ending.
parse_error(i) ==
    LET r1 == Tag(i, <<"A", "C", "K", " ", "[">>) IN
    IF r1.t # "Done" THEN r1 ELSE
    LET r2 == Digit(r1.rest) IN
    IF r2.t # "Done" THEN r2 ELSE
    LET code == CmdErrorType_from_code(r2.o) IN
    IF code = None THEN Error("MapOpt") ELSE
    LET r3 == Tag(r2.rest, <<"@">>) IN
    IF r3.t # "Done" THEN r3 ELSE
    LET r4 == Digit(r3.rest) IN
    IF r4.t # "Done" THEN r4 ELSE
    LET index == parse_bytes_u64(r4.o) IN
    IF index = None THEN Error("MapOpt") ELSE
    LET r5 == Tag(r4.rest, <<"]", " ", "{">>) IN
    IF r5.t # "Done" THEN r5 ELSE
    LET r6 == IsNot(r5.rest, {"}", "\r", "\n"}) IN
    IF r6.t # "Done" THEN r6 ELSE
    LET r7 == Tag(r6.rest, <<"}", " ">>) IN
    IF r7.t # "Done" THEN r7 ELSE
    LET r8 == NotLineEnding(r7.rest) IN
    IF r8.t # "Done" THEN r8 ELSE
    LET r9 == LineEnding(r8.rest) IN
    IF r9.t # "Done" THEN r9 ELSE
    Done(r9.rest, [error_type |-> code[1], command_no |-> index[1],
                   command_name |-> r6.o, message_text |-> r8.o])

\* alt!: the first alternative that is not an Error decides.
parse_num_bool(i) ==
    LET r0 == Tag(i, <<"0">>) IN
    IF r0.t = "Done" THEN Done(r0.rest, FALSE)
    ELSE IF r0.t # "Error" THEN r0
    ELSE LET r1 == Tag(i, <<"1">>) IN
         IF r1.t = "Done" THEN Done(r1.rest, TRUE)
         ELSE IF r1.t # "Error" THEN r1
         ELSE Error("Alt")

---------------------------------------------------------------------------
(* Value parsers of the status reply (protocol/command.rs).                *)

\* parse_status_line!(tag): "<tag>: <value>\n", giving the value bytes.
parse_status_line(i, tg) ==
    LET r1 == Tag(i, tg) IN
    IF r1.t # "Done" THEN r1 ELSE
    LET r2 == Tag(r1.rest, <<":", " ">>) IN
    IF r2.t # "Done" THEN r2 ELSE
    LET r3 == NotLineEnding(r2.rest) IN
    IF r3.t # "Done" THEN r3 ELSE
    LET r4 == Tag(r3.rest, <<"\n">>) IN
    IF r4.t # "Done" THEN r4 ELSE Done(r4.rest, r3.o)

parse_status_state(i) ==
    LET r1 == Tag(i, <<"p","l","a","y">>) IN
    IF r1.t = "Done" THEN Done(r1.rest, "Play")
    ELSE IF r1.t # "Error" THEN r1 ELSE
    LET r2 == Tag(i, <<"p","a","u","s","e">>) IN
    IF r2.t = "Done" THEN Done(r2.rest, "Pause")
    ELSE IF r2.t # "Error" THEN r2 ELSE
    LET r3 == Tag(i, <<"s","t","o","p">>) IN
    IF r3.t = "Done" THEN Done(r3.rest, "Stop")
    ELSE IF r3.t # "Error" THEN r3
    ELSE Error("Alt")

\* map_res!(digit, parse_bytes::<u32>)
DigitU32(i) ==
    LET r == Digit(i) IN
    IF r.t # "Done" THEN r
    ELSE LET v == parse_bytes_u32(r.o) IN
         IF v = None THEN Error("MapRes") ELSE Done(r.rest, v[1])

parse_audio(i) ==
    LET r1 == DigitU32(i) IN
    IF r1.t # "Done" THEN r1 ELSE
    LET r2 == Tag(r1.rest, <<":">>) IN
    IF r2.t # "Done" THEN r2 ELSE
    LET r3 == DigitU32(r2.rest) IN
    IF r3.t # "Done" THEN r3 ELSE
    LET r4 == Tag(r3.rest, <<":">>) IN
    IF r4.t # "Done" THEN r4 ELSE
    LET r5 == DigitU32(r4.rest) IN
    IF r5.t # "Done" THEN r5 ELSE Done(r5.rest, <<r1.o, r3.o, r5.o>>)

RECURSIVE Pow10(_)
Pow10(n) == IF n = 0 THEN 1 ELSE 10 * Pow10(n - 1)

\* The widest fractional digit run whose scale 10^L fits in a u32.
MaxFracDigits == 9

\* parse_time: "<secs>.<frac>" to Duration::new(secs, nanos) with
\* nanos = frac * (1_000_000_000 / 10u32.pow(len(frac))).  A longer
\* fractional run overflows 10u32.pow, which aborts a checked build; an
\* unchecked build goes on with 10^L mod 2^32 as the scale (for L = 10 the
\* quotient and so the nanoseconds are 0; from L = 32 on the division is
\* by zero, which aborts every build).  The outcome here is the abort.
parse_time(i) ==
    LET r1 == Digit(i) IN
    IF r1.t # "Done" THEN r1 ELSE
    LET secs == parse_bytes_u64(r1.o) IN
    IF secs = None THEN Error("MapRes") ELSE
    LET r2 == Tag(r1.rest, <<".">>) IN
    IF r2.t # "Done" THEN r2 ELSE
    LET r3 == Digit(r2.rest) IN
    IF r3.t # "Done" THEN r3 ELSE
    LET val == parse_bytes_u32(r3.o) IN
    IF val = None THEN Error("MapRes")
    ELSE IF Len(r3.o) > MaxFracDigits THEN [t |-> "Panic"]
    ELSE Done(r3.rest,
              [secs |-> secs[1],
               nanos |-> val[1] * (Pow10(9) \div Pow10(Len(r3.o)))])

\* The conversion an alternative applies to the value bytes of its line:
\* map_res! gives Error(MapRes) when the conversion fails; flat_map! runs a
\* parser on the value and passes its Error or Incomplete on, dropping
\* whatever the parser left unread.
ConvertValue(conv, out) ==
    IF conv = "ignored" THEN Done(<<>>, None)
    ELSE IF conv \in {"bool", "state", "time", "audio"} THEN
        With(IF conv = "bool" THEN parse_num_bool(out)
             ELSE IF conv = "state" THEN parse_status_state(out)
             ELSE IF conv = "time" THEN parse_time(out)
             ELSE parse_audio(out),
             LAMBDA sub : IF sub.t = "Done" THEN Done(<<>>, Some(sub.o)) ELSE sub)
    ELSE
        With(IF conv = "u8" THEN parse_bytes_u8(out)
             ELSE IF conv = "u32" THEN parse_bytes_u32(out)
             ELSE IF conv = "u64" THEN parse_bytes_u64(out)
             ELSE IF conv = "f32" THEN parse_bytes_f32(out)
             ELSE IF conv = "secs" THEN
                With(parse_bytes_u64(out),
                     LAMBDA v : IF v = None THEN None
                                ELSE Some([secs |-> v[1], nanos |-> 0]))
             ELSE IF conv = "timestamp" THEN parse_bytes_i64(out)
             ELSE None,
             LAMBDA opt : IF opt = None THEN Error("MapRes") ELSE Done(<<>>, opt))

\* An alternative that reads the value of an ignored line as a time.
FieldAlt_typed(i, alt) ==
    With(parse_status_line(i, alt.name), LAMBDA r :
        IF r.t # "Done" THEN r
        ELSE With(ConvertValue(IF alt.conv = "ignored" THEN "time" ELSE alt.conv,
                               r.o),
                  LAMBDA c :
                    IF c.t # "Done" THEN c
                    ELSE Done(r.rest, IF alt.conv = "ignored" THEN None ELSE c.o)))

\* One alternative of a field table: the line, then the conversion.  The
\* output is Some(value), or None for a line that sets nothing.
FieldAlt(i, alt) ==
    With(parse_status_line(i, alt.name), LAMBDA r :
        IF r.t # "Done" THEN r
        ELSE With(ConvertValue(alt.conv, r.o), LAMBDA c :
                IF c.t = "Done" THEN Done(r.rest, c.o) ELSE c))

---------------------------------------------------------------------------
(* The status and stats decoders (protocol/command.rs, types.rs).          *)

\* The alternatives of parse_single_status_response, in the order alt!
\* tries them: wire name, MaybeStatus field set, conversion.
StatusTable ==
    << [name |-> <<"v","o","l","u","m","e">>,
        field |-> "volume", conv |-> "u8"],
       [name |-> <<"r","e","p","e","a","t">>,
        field |-> "repeat", conv |-> "bool"],
       [name |-> <<"r","a","n","d","o","m">>,
        field |-> "random", conv |-> "bool"],
       [name |-> <<"s","i","n","g","l","e">>,
        field |-> "single", conv |-> "bool"],
       [name |-> <<"c","o","n","s","u","m","e">>,
        field |-> "consume", conv |-> "bool"],
       [name |-> <<"p","l","a","y","l","i","s","t">>,
        field |-> "playlist", conv |-> "u32"],
       [name |-> <<"p","l","a","y","l","i","s","t","l","e","n","g","t","h">>,
        field |-> "playlist_length", conv |-> "u32"],
       [name |-> <<"m","i","x","r","a","m","p","d","b">>,
        field |-> "mix_ramp_db", conv |-> "f32"],
       [name |-> <<"s","t","a","t","e">>,
        field |-> "state", conv |-> "state"],
       [name |-> <<"x","f","a","d","e">>,
        field |-> "crossfade", conv |-> "u32"],
       [name |-> <<"s","o","n","g">>,
        field |-> "song", conv |-> "u32"],
       [name |-> <<"s","o","n","g","i","d">>,
        field |-> "song_id", conv |-> "u32"],
       [name |-> <<"t","i","m","e">>,
        field |-> "", conv |-> "ignored"],
       [name |-> <<"e","l","a","p","s","e","d">>,
        field |-> "elapsed", conv |-> "time"],
       [name |-> <<"b","i","t","r","a","t","e">>,
        field |-> "bitrate", conv |-> "u32"],
       [name |-> <<"d","u","r","a","t","i","o","n">>,
        field |-> "duration", conv |-> "time"],
       [name |-> <<"a","u","d","i","o">>,
        field |-> "audio", conv |-> "audio"],
       [name |-> <<"n","e","x","t","s","o","n","g">>,
        field |-> "next_song", conv |-> "u32"],
       [name |-> <<"n","e","x","t","s","o","n","g","i","d">>,
        field |-> "next_song_id", conv |-> "u32"] >>

\* The alternatives of parse_single_stats_response.
StatsTable ==
    << [name |-> <<"a","r","t","i","s","t","s">>,
        field |-> "artists", conv |-> "u64"],
       [name |-> <<"a","l","b","u","m","s">>,
        field |-> "albums", conv |-> "u64"],
       [name |-> <<"s","o","n","g","s">>,
        field |-> "songs", conv |-> "u64"],
       [name |-> <<"u","p","t","i","m","e">>,
        field |-> "uptime", conv |-> "secs"],
       [name |-> <<"d","b","_","p","l","a","y","t","i","m","e">>,
        field |-> "db_playtime", conv |-> "secs"],
       [name |-> <<"d","b","_","u","p","d","a","t","e">>,
        field |-> "db_update", conv |-> "timestamp"],
       [name |-> <<"p","l","a","y","t","i","m","e">>,
        field |-> "playtime", conv |-> "secs"] >>

StatusFields ==
    {"volume", "repeat", "random", "single", "consume", "playlist",
     "playlist_length", "state", "song", "song_id", "next_song",
     "next_song_id", "elapsed", "duration", "bitrate", "crossfade",
     "mix_ramp_db", "audio", "updating_db", "error"}

\* The fields MaybeStatus::try_into passes on as Options.
StatusOptional == {"duration", "updating_db", "error"}

StatsFields ==
    {"artists", "albums", "songs", "uptime", "db_playtime", "db_update",
     "playtime"}

\* Default::default() of MaybeStatus and of MaybeStats.
MaybeStatus_default == [f \in StatusFields |-> None]
MaybeStats_default  == [f \in StatsFields |-> None]

\* A conversion that needs the duration as well.
MaybeStatus_try_into_strict(ms) ==
    IF \E f \in StatusFields \ {"updating_db", "error"} : ms[f] = None
    THEN None
    ELSE Some([f \in StatusFields |->
                 IF f \in {"updating_db", "error"} THEN ms[f] ELSE ms[f][1]])

\* A conversion that does without the playtime.
MaybeStats_try_into_partial(ms) ==
    IF \E f \in StatsFields \ {"playtime"} : ms[f] = None THEN None
    ELSE Some([f \in StatsFields |-> IF ms[f] = None THEN 0 ELSE ms[f][1]])

\* MaybeStatus::try_into: None as soon as a try_opt! field is None.
MaybeStatus_try_into(ms) ==
    IF \E f \in StatusFields \ StatusOptional : ms[f] = None THEN None
    ELSE Some([f \in StatusFields |->
                 IF f \in StatusOptional THEN ms[f] ELSE ms[f][1]])

\* MaybeStats::try_into
MaybeStats_try_into(ms) ==
    IF \E f \in StatsFields : ms[f] = None THEN None
    ELSE Some([f \in StatsFields |-> ms[f][1]])

RECURSIVE AltFields_updating(_, _, _)
\* An alt! with one more alternative after those of the status table, which
\* takes an updating_db line.
AltFields_updating(i, table, k) ==
    IF k > Len(table)
    THEN IF "updating_db" \notin {table[j].field : j \in 1..Len(table)}
            /\ "volume" \in {table[j].field : j \in 1..Len(table)}
         THEN With(FieldAlt(i, [name |-> <<"u","p","d","a","t","i","n","g",
                                          "_","d","b">>,
                                field |-> "updating_db", conv |-> "u32"]),
                   LAMBDA r :
                     IF r.t = "Done"
                     THEN Done(r.rest, [field |-> "updating_db", value |-> r.o])
                     ELSE r)
         ELSE Error("Alt")
    ELSE With(FieldAlt(i, table[k]), LAMBDA r :
            IF r.t = "Error" THEN AltFields_updating(i, table, k + 1)
            ELSE IF r.t = "Done"
                 THEN Done(r.rest, [field |-> table[k].field, value |-> r.o])
            ELSE r)

RECURSIVE AltFields(_, _, _)
\* alt! over a field table from alternative k on: an Error moves on to the
\* next alternative, anything else is the result.  Done carries the field
\* to set and its value.
AltFields(i, table, k) ==
    IF k > Len(table) THEN Error("Alt")
    ELSE With(FieldAlt(i, table[k]), LAMBDA r :
            IF r.t = "Error" THEN AltFields(i, table, k + 1)
            ELSE IF r.t = "Done"
                 THEN Done(r.rest, [field |-> table[k].field, value |-> r.o])
            ELSE r)

\* A line parser whose first alternative clears every other field.
ParseSingle_reset(i, table, acc) ==
    With(AltFields(i, table, 1), LAMBDA r :
        IF r.t # "Done" THEN r
        ELSE [t |-> "Done", rest |-> r.rest,
              acc |-> IF r.o.value = None THEN acc
                      ELSE IF r.o.field = table[1].field
                      THEN [f \in DOMAIN acc |->
                              IF f = r.o.field THEN r.o.value ELSE None]
                      ELSE [acc EXCEPT ![r.o.field] = r.o.value]])

\* parse_single_status_response / parse_single_stats_response: one line
\* into the accumulator acc.
ParseSingle(i, table, acc) ==
    With(AltFields(i, table, 1), LAMBDA r :
        IF r.t # "Done" THEN r
        ELSE [t |-> "Done", rest |-> r.rest,
              acc |-> IF r.o.value = None THEN acc
                      ELSE [acc EXCEPT ![r.o.field] = r.o.value]])

parse_single_status_response(i, status) == ParseSingle(i, StatusTable, status)
parse_single_stats_response(i, stats)   == ParseSingle(i, StatsTable, stats)

RECURSIVE StatusLoop_greedy(_, _)
\* A loop that takes the first byte of the line it breaks at.
StatusLoop_greedy(i_inner, status) ==
    With(parse_single_status_response(i_inner, status), LAMBDA r :
        IF r.t = "Done" THEN StatusLoop_greedy(r.rest, r.acc)
        ELSE IF r.t = "Error"
             THEN [t |-> "Break", acc |-> status,
                   rest |-> IF i_inner = <<>> THEN <<>> ELSE Tail(i_inner)]
        ELSE r)

RECURSIVE StatusLoop(_, _)
\* The loop of parse_status_response: lines are taken until one is an Error
\* (break); Incomplete returns at once.  Gives the position and accumulator
\* the loop broke at.
StatusLoop(i_inner, status) ==
    With(parse_single_status_response(i_inner, status), LAMBDA r :
        IF r.t = "Done" THEN StatusLoop(r.rest, r.acc)
        ELSE IF r.t = "Error"
             THEN [t |-> "Break", rest |-> i_inner, acc |-> status]
        ELSE r)

parse_status_response(i) ==
    With(StatusLoop(i, MaybeStatus_default), LAMBDA l :
        IF l.t # "Break" THEN l
        ELSE With(MaybeStatus_try_into(l.acc), LAMBDA s :
                IF s = None THEN Error("Custom0")
                ELSE Done(l.rest, [kind |-> "Status", status |-> s[1]])))

RECURSIVE StatsLoop(_, _)
StatsLoop(i_inner, stats) ==
    With(parse_single_stats_response(i_inner, stats), LAMBDA r :
        IF r.t = "Done" THEN StatsLoop(r.rest, r.acc)
        ELSE IF r.t = "Error"
             THEN [t |-> "Break", rest |-> i_inner, acc |-> stats]
        ELSE r)

parse_stats_response(i) ==
    With(StatsLoop(i, MaybeStats_default), LAMBDA l :
        IF l.t # "Break" THEN l
        ELSE With(MaybeStats_try_into(l.acc), LAMBDA s :
                IF s = None THEN Error("Custom0")
                ELSE Done(l.rest, [kind |-> "Stats", stats |-> s[1]])))

---------------------------------------------------------------------------
(* Commands and command lists (protocol/command.rs).  A Command is a       *)
(* record [kind |-> <variant>, ...arguments]; a CommandList is a sequence  *)
(* of them.  unimplemented!() is the outcome [t |-> "Panic"].              *)

Panic == [t |-> "Panic"]

\* The variants Command::parse_response answers with Blank.
BlankKinds ==
    {"ClearError", "CurrentSong", "Consume", "Crossfade", "MixRampDB",
     "MixRampDelay", "Random", "Repeat", "Volume", "Single",
     "ReplayGainMode", "Next", "Pause", "Play", "PlayId", "Previous",
     "Seek", "SeekId", "SeekCurrent", "Stop"}

Blank == [kind |-> "Blank"]

\* A decoder that reads the closing OK of a reply as part of every command.
\* C26_BlankConsumesNothing does not hold of it.
Command_parse_response_ok(cmd, i) ==
    With(parse_ok(i), LAMBDA r :
        IF r.t = "Done" THEN Done(r.rest, Blank) ELSE r)

\* impl ParseResponse for Command
Command_parse_response(cmd, i) ==
    IF cmd.kind \in BlankKinds THEN Done(i, Blank)
    ELSE IF cmd.kind = "Status" THEN parse_status_response(i)
    ELSE IF cmd.kind = "Stats" THEN parse_stats_response(i)
    ELSE Panic

RECURSIVE ListLoop(_, _, _, _)
\* The for loop of CommandList::parse_response from command k on: the
\* command's own decoder, then try_parse!(parse_list_ok).
ListLoop(cmds, k, i_inner, response) ==
    IF k > Len(cmds) THEN Done(i_inner, response)
    ELSE With(Command_parse_response(cmds[k], i_inner), LAMBDA r :
            IF r.t # "Done" THEN r
            ELSE With(parse_list_ok(r.rest), LAMBDA m :
                    IF m.t # "Done" THEN m
                    ELSE ListLoop(cmds, k + 1, m.rest, Append(response, r.o))))

\* impl ParseResponse for CommandList
CommandList_parse_response(cmds, i) ==
    With(ListLoop(cmds, 1, i, <<>>), LAMBDA l :
        IF l.t # "Done" THEN l
        ELSE With(parse_ok(l.rest), LAMBDA e :
                IF e.t # "Done" THEN e ELSE Done(e.rest, l.o)))

RECURSIVE NatDigits(_)
NatDigits(n) ==
    IF n < 10 THEN <<DigitBytes[n + 1]>>
    ELSE Append(NatDigits(n \div 10), DigitBytes[(n % 10) + 1])

\* "{}" of an unsigned integer.
FmtNat(n) == NatDigits(n)

\* "1" / "0" of the if on { ... } else { ... } arms.
FmtBool(b) == IF b THEN <<"1">> ELSE <<"0">>

Written(bytes) == [t |-> "Write", bytes |-> bytes]

\* "{}" of a signed integer.
FmtInt(n) == IF n < 0 THEN <<"-">> \o NatDigits(0 - n) ELSE NatDigits(n)

\* The arms of the match of impl fmt::Display for TagType, in order: the
\* identifier of the pattern and the string the arm writes.
TagArms ==
    << [pat |-> "Artist",
        str |-> <<"a","r","t","i","s","t">>],
       [pat |-> "ArtistSort",
        str |-> <<"a","r","t","i","s","t","s","o","r","t">>],
       [pat |-> "Album",
        str |-> <<"a","l","b","u","m">>],
       [pat |-> "AlbumSort",
        str |-> <<"a","l","b","u","m","s","o","r","t">>],
       [pat |-> "AlbumArtist",
        str |-> <<"a","l","b","u","m","a","r","t","i","s","t">>],
       [pat |-> "AlbumArtistSort",
        str |-> <<"a","l","b","u","m","a","r","t","i","s","t","s","o","r",
                "t">>],
       [pat |-> "Title",
        str |-> <<"t","i","t","l","e">>],
       [pat |-> "Track",
        str |-> <<"t","r","a","c","k">>],
       [pat |-> "Name",
        str |-> <<"n","a","m","e">>],
       [pat |-> "Genre",
        str |-> <<"g","e","n","r","e">>],
       [pat |-> "Date",
        str |-> <<"d","a","t","e">>],
       [pat |-> "Composer",
        str |-> <<"c","o","m","p","o","s","e","r">>],
       [pat |-> "Performer",
        str |-> <<"p","e","r","f","o","r","m","e","r">>],
       [pat |-> "Comment",
        str |-> <<"c","o","m","m","e","n","t">>],
       [pat |-> "Disc",
        str |-> <<"d","i","s","c">>],
       [pat |-> "MusicbrainzArtistId",
        str |-> <<"m","u","s","i","c","b","r","a","i","n","z","_","a","r","t",
                "i","s","t","i","d">>],
       [pat |-> "MusicbrainzAlbumId",
        str |-> <<"m","u","s","i","c","b","r","a","i","n","z","_","a","l","b",
                "u","m","i","d">>],
       [pat |-> "MusicbrainzAlbumArtistId",
        str |-> <<"m","u","s","i","c","b","r","a","i","n","z","_","a","l","b",
                "u","m","a","r","t","i","s","t","i","d">>],
       [pat |-> "MusicbrainzTrackId",
        str |-> <<"m","u","s","i","c","b","r","a","i","n","z","_","t","r","a",
                "c","k","i","d">>],
       [pat |-> "MusicbrainzReleaseTrackId",
        str |-> <<"m","u","s","i","c","b","r","a","i","n","z","_","r","e","l",
                "e","a","s","e","t","r","a","c","k","i","d">>] >>

\* The variants of enum TagType.
TagTypes == {TagArms[k].pat : k \in DOMAIN TagArms}

\* impl fmt::Display for TagType.  types.rs never brings the variants of
\* TagType into scope (no `use self::TagType::*`, no `TagType::` before the
\* names), so the pattern of each arm is an identifier, which binds *self
\* whatever it is: the first arm is taken for every tag.
TagType_fmt(tag) == TagArms[1].str

\* A Display for Range that writes an open range without its colon.
Range_fmt_open(r) ==
    IF r.end # None THEN FmtNat(r.start) \o <<":">> \o FmtNat(r.end[1])
    ELSE FmtNat(r.start)

\* impl fmt::Display for Range
Range_fmt(r) ==
    IF r.end # None THEN FmtNat(r.start) \o <<":">> \o FmtNat(r.end[1])
    ELSE FmtNat(r.start) \o <<":">>

\* impl fmt::Display for SingleOrRange
SingleOrRange_fmt(s) ==
    IF s.t = "Single" THEN FmtNat(s.val) ELSE Range_fmt(s.r)

RECURSIVE Joined(_)
\* The tokens toks with one space between them.
Joined(toks) ==
    IF Len(toks) = 1 THEN toks[1]
    ELSE toks[1] \o <<" ">> \o Joined(Tail(toks))

\* A line that ends in a space before its line break.
Line_padded(toks) == Written(Joined(toks) \o <<" ", "\n">>)

\* write!(w, "<name> {} {}\n", ...): the name and the arguments with single
\* spaces between them, then the line break.
Line(toks) == Written(Joined(toks) \o <<"\n">>)

\* impl Dispatch for Command: the line the variant writes.
Command_dispatch(cmd) ==
    LET k == cmd.kind IN
    IF k = "ClearError" THEN
        Line(<<<<"c","l","e","a","r","e","r","r","o","r">>>>)
    ELSE IF k = "CurrentSong" THEN
        Line(<<<<"c","u","r","r","e","n","t","s","o","n","g">>>>)
    ELSE IF k = "Idle" THEN
        Panic
    ELSE IF k = "Status" THEN
        Line(<<<<"s","t","a","t","u","s">>>>)
    ELSE IF k = "Stats" THEN
        Line(<<<<"s","t","a","t","s">>>>)
    ELSE IF k = "Consume" THEN
        Line(<<<<"c","o","n","s","u","m","e">>, FmtBool(cmd.on)>>)
    ELSE IF k = "Crossfade" THEN
        Line(<<<<"c","r","o","s","s","f","a","d","e">>, FmtNat(cmd.n)>>)
    ELSE IF k = "MixRampDB" THEN
        Line(<<<<"m","i","x","r","a","m","p","d","b">>, FmtInt(cmd.n)>>)
    ELSE IF k = "MixRampDelay" THEN
        IF cmd.amt # None
        THEN Line(<<<<"m","i","x","r","a","m","p","d","e","l","a","y">>,
              FmtNat(cmd.amt[1])>>)
        ELSE Line(<<<<"m","i","x","r","a","m","p","d","e","l","a","y">>,
              <<"n","a","n">>>>)
    ELSE IF k = "Random" THEN
        Line(<<<<"r","a","n","d","o","m">>, FmtBool(cmd.on)>>)
    ELSE IF k = "Repeat" THEN
        Line(<<<<"r","e","p","e","a","t">>, FmtBool(cmd.on)>>)
    ELSE IF k = "Volume" THEN
        Line(<<<<"s","e","t","v","o","l">>, FmtNat(cmd.n)>>)
    ELSE IF k = "Single" THEN
        Line(<<<<"s","i","n","g","l","e">>, FmtBool(cmd.on)>>)
    ELSE IF k = "ReplayGainMode" THEN
        IF cmd.mode = "Off" THEN Line(<<<<"r","e","p","l","a","y","_","g","a",
              "i","n","_","m","o","d","e">>, <<"o","f","f">>>>)
        ELSE IF cmd.mode = "Track" THEN Line(<<<<"r","e","p","l","a","y","_",
              "g","a","i","n","_","m","o","d","e">>, <<"t","r","a","c",
                    "k">>>>)
        ELSE IF cmd.mode = "Album" THEN Line(<<<<"r","e","p","l","a","y","_",
              "g","a","i","n","_","m","o","d","e">>, <<"a","l","b","u",
                    "m">>>>)
        ELSE Line(<<<<"r","e","p","l","a","y","_","g","a","i","n","_","m","o",
              "d","e">>, <<"a","u","t","o">>>>)
    ELSE IF k = "ReplayGainStatus" THEN
        Line(<<<<"r","e","p","l","a","y","_","g","a","i","n","_","s","t","a",
              "t","u","s">>>>)
    ELSE IF k = "Next" THEN
        Line(<<<<"n","e","x","t">>>>)
    ELSE IF k = "Pause" THEN
        Line(<<<<"p","a","u","s","e">>, FmtBool(cmd.on)>>)
    ELSE IF k = "Play" THEN
        Line(<<<<"p","l","a","y">>, FmtNat(cmd.n)>>)
    ELSE IF k = "PlayId" THEN
        Line(<<<<"p","l","a","y","i","d">>, cmd.id>>)
    ELSE IF k = "Previous" THEN
        Line(<<<<"p","r","e","v","i","o","u","s">>>>)
    ELSE IF k = "Seek" THEN
        Panic
    ELSE IF k = "SeekId" THEN
        Panic
    ELSE IF k = "SeekCurrent" THEN
        Panic
    ELSE IF k = "Stop" THEN
        Line(<<<<"s","t","o","p">>>>)
    ELSE IF k = "Add" THEN
        Line(<<<<"a","d","d">>, cmd.uri>>)
    ELSE IF k = "AddId" THEN
        IF cmd.position # None
        THEN Line(<<<<"a","d","d","i","d">>, cmd.uri,
              FmtNat(cmd.position[1])>>)
        ELSE Line(<<<<"a","d","d","i","d">>, cmd.uri>>)
    ELSE IF k = "Clear" THEN
        Line(<<<<"c","l","e","a","r">>>>)
    ELSE IF k = "Delete" THEN
        Line(<<<<"d","e","l","e","t","e">>, SingleOrRange_fmt(cmd.s_or_r)>>)
    ELSE IF k = "DeleteId" THEN
        Line(<<<<"d","e","l","e","t","e","i","d">>, cmd.id>>)
    ELSE IF k = "Move" THEN
        Line(<<<<"m","o","v","e">>, SingleOrRange_fmt(cmd.from),
              FmtNat(cmd.to)>>)
    ELSE IF k = "MoveId" THEN
        Line(<<<<"m","o","v","e","i","d">>, cmd.from, FmtNat(cmd.to)>>)
    ELSE IF k = "PlaylistFind" THEN
        Line(<<<<"p","l","a","y","l","i","s","t","f","i","n","d">>, cmd.tag,
              cmd.needle>>)
    ELSE IF k = "PlaylistId" THEN
        IF cmd.song # None
        THEN Line(<<<<"p","l","a","y","l","i","s","t","i","d">>,
              FmtNat(cmd.song[1])>>)
        ELSE Line(<<<<"p","l","a","y","l","i","s","t","i","d">>>>)
    ELSE IF k = "PlaylistInfo" THEN
        IF cmd.s_or_r # None
        THEN Line(<<<<"p","l","a","y","l","i","s","t","i","n","f","o">>,
              SingleOrRange_fmt(cmd.s_or_r[1])>>)
        ELSE Line(<<<<"p","l","a","y","l","i","s","t","i","n","f","o">>>>)
    ELSE IF k = "PlaylistSearch" THEN
        Line(<<<<"p","l","a","y","l","i","s","t","f","i","n","d">>,
              TagType_fmt(cmd.tag), cmd.needle>>)
    ELSE IF k = "PlaylistChanges" THEN
        IF cmd.range # None
        THEN Line(<<<<"p","l","c","h","a","n","g","e","s">>, cmd.version,
              Range_fmt(cmd.range[1])>>)
        ELSE Line(<<<<"p","l","c","h","a","n","g","e","s">>, cmd.version>>)
    ELSE IF k = "PlaylistChangesPositionId" THEN
        IF cmd.range # None
        THEN Line(<<<<"p","l","c","h","a","n","g","e","s","p","o","s","i",
              "d">>, cmd.version, Range_fmt(cmd.range[1])>>)
        ELSE Line(<<<<"p","l","c","h","a","n","g","e","s","p","o","s","i",
              "d">>, cmd.version>>)
    ELSE IF k = "Priority" THEN
        Line(<<<<"p","r","i","o">>, FmtNat(cmd.priority)>>
             \o [j \in 1..Len(cmd.songs) |-> SingleOrRange_fmt(cmd.songs[j])])
    ELSE IF k = "PriorityId" THEN
        Line(<<<<"p","r","i","o","i","d">>,
              FmtNat(cmd.priority)>> \o cmd.songs)
    ELSE IF k = "RangeId" THEN
        Line(<<<<"r","a","n","g","e","i","d">>, cmd.id,
              Range_fmt(cmd.range)>>)
    ELSE IF k = "Shuffle" THEN
        Line(<<<<"s","u","f","f","l","e">>, Range_fmt(cmd.range)>>)
    ELSE IF k = "Swap" THEN
        Line(<<<<"s","w","a","p">>, FmtNat(cmd.pos1), FmtNat(cmd.pos2)>>)
    ELSE IF k = "SwapId" THEN
        Line(<<<<"s","w","a","p","i","d">>, cmd.id1, cmd.id2>>)
    ELSE IF k = "AddTagId" THEN
        Line(<<<<"a","d","d","t","a","g","i","d">>, cmd.id,
              TagType_fmt(cmd.tag[1]), cmd.tag[2]>>)
    ELSE IF k = "ClearTagId" THEN
        Line(<<<<"c","l","e","a","r","t","a","g","i","d">>, cmd.id,
              TagType_fmt(cmd.tag)>>)
    ELSE IF k = "ListPlaylist" THEN
        Line(<<<<"l","i","s","t","p","l","a","y","l","i","s","t">>,
              cmd.name>>)
    ELSE IF k = "ListPlaylistInfo" THEN
        Line(<<<<"l","i","s","t","p","l","a","y","l","i","s","t","i","n","f",
              "o">>, cmd.name>>)
    ELSE IF k = "ListPlaylists" THEN
        Line(<<<<"l","i","s","t","p","l","a","y","l","i","s","t","s">>>>)
    ELSE IF k = "Load" THEN
        IF cmd.range # None
        THEN Line(<<<<"l","o","a","d">>, cmd.name, Range_fmt(cmd.range[1])>>)
        ELSE Line(<<<<"l","o","a","d">>, cmd.name>>)
    ELSE IF k = "PlaylistAdd" THEN
        Line(<<<<"p","l","a","y","l","i","s","t","a","d","d">>, cmd.playlist,
              cmd.song>>)
    ELSE IF k = "PlaylistClear" THEN
        Line(<<<<"p","l","a","y","l","i","s","t","c","l","e","a","r">>,
              cmd.name>>)
    ELSE IF k = "PlaylistDelete" THEN
        Line(<<<<"p","l","a","y","l","i","s","t","d","e","l","e","t","e">>,
              cmd.playlist, FmtNat(cmd.song)>>)
    ELSE IF k = "PlaylistMove" THEN
        Line(<<<<"p","l","a","y","l","i","s","t","m","o","v","e">>,
              cmd.playlist, FmtNat(cmd.from), FmtNat(cmd.to)>>)
    ELSE IF k = "Rename" THEN
        Line(<<<<"r","e","n","a","m","e">>, cmd.old_name, cmd.new_name>>)
    ELSE IF k = "Remove" THEN
        Line(<<<<"r","m">>, cmd.name>>)
    ELSE IF k = "Save" THEN
        Line(<<<<"s","a","v","e">>, cmd.name>>)
    ELSE IF k = "Count" THEN
        IF cmd.group # None
        THEN Line(<<<<"c","o","u","n","t">>, TagType_fmt(cmd.tag[1]),
              cmd.tag[2], <<"g","r","o","u","p">>,
                    TagType_fmt(cmd.group[1])>>)
        ELSE Line(<<<<"c","o","u","n","t">>, TagType_fmt(cmd.tag[1]),
              cmd.tag[2]>>)
    ELSE IF k = "GroupCount" THEN
        Line(<<<<"c","o","u","n","t">>, <<"g","r","o","u","p">>,
              TagType_fmt(cmd.tag)>>)
    ELSE Panic

TagListBegin ==
    <<"c","o","m","m","a","n","d","_","l","i","s","t","_","o","k","_",
      "b","e","g","i","n","\n">>
TagListEnd ==
    <<"c","o","m","m","a","n","d","_","l","i","s","t","_","e","n","d","\n">>

\* The write! calls Command::dispatch makes for cmd, in order: Priority
\* and PriorityId write the command word with the priority, then each song
\* group, then the newline; every other variant makes one call.
Command_writes(cmd) ==
    IF cmd.kind = "Priority" THEN
        <<<<"p","r","i","o"," ">> \o FmtNat(cmd.priority)>>
        \o [j \in 1..Len(cmd.songs) |-> <<" ">> \o SingleOrRange_fmt(cmd.songs[j])]
        \o <<<<"\n">>>>
    ELSE IF cmd.kind = "PriorityId" THEN
        <<<<"p","r","i","o","i","d"," ">> \o FmtNat(cmd.priority)>>
        \o [j \in 1..Len(cmd.songs) |-> <<" ">> \o cmd.songs[j]]
        \o <<<<"\n">>>>
    ELSE <<Command_dispatch(cmd).bytes>>

RECURSIVE WriteFrom_through(_, _, _, _)
\* Writes that go on after a rejected one and report it at the end.
\* C27_StopsAtFailure does not hold of it.
WriteFrom_through(writes, j, failAt, written) ==
    IF j > Len(writes)
    THEN [res |-> IF failAt \in 1..Len(writes) THEN "Err" ELSE "Ok",
          written |-> written,
          left |-> IF failAt > Len(writes) THEN failAt - Len(writes) ELSE 0]
    ELSE WriteFrom_through(writes, j + 1, failAt,
                           IF j = failAt THEN written ELSE written \o writes[j])

RECURSIVE WriteFrom(_, _, _, _)
\* The calls writes[j..] made one after the other with `?`: the first Err
\* is returned at once.  The sink rejects call failAt of writes (0: none);
\* left is failAt counted on from the end of writes.
WriteFrom(writes, j, failAt, written) ==
    IF j > Len(writes)
    THEN [res |-> "Ok", written |-> written,
          left |-> IF failAt = 0 THEN 0 ELSE failAt - Len(writes)]
    ELSE IF j = failAt THEN [res |-> "Err", written |-> written, left |-> 0]
    ELSE WriteFrom(writes, j + 1, failAt, written \o writes[j])

\* Command::dispatch into a sink that rejects write call failAt (0: none).
Command_dispatch_into(cmd, failAt) ==
    IF Command_dispatch(cmd).t = "Panic"
    THEN [res |-> "Panic", written |-> <<>>]
    ELSE With(WriteFrom(Command_writes(cmd), 1, failAt, <<>>), LAMBDA d :
            [res |-> d.res, written |-> d.written])

RECURSIVE DispatchFrom(_, _, _, _)
\* CommandList::dispatch from step j on, j = 1 being command_list_ok_begin,
\* j = k + 1 the dispatch of command k and j = Len(cmds) + 2
\* command_list_end.  The sink rejects the write call failAt calls from
\* here (0: none); `?` returns at the first Err.
DispatchFrom(cmds, j, failAt, written) ==
    IF j > Len(cmds) + 2 THEN [res |-> "Ok", written |-> written]
    ELSE IF j \in 2..(Len(cmds) + 1) /\ Command_dispatch(cmds[j - 1]).t = "Panic"
    THEN [res |-> "Panic", written |-> written]
    ELSE With(WriteFrom(IF j = 1 THEN <<TagListBegin>>
                        ELSE IF j = Len(cmds) + 2 THEN <<TagListEnd>>
                        ELSE Command_writes(cmds[j - 1]),
                        1, failAt, written),
              LAMBDA d :
                IF d.res = "Err" THEN [res |-> "Err", written |-> d.written]
                ELSE DispatchFrom(cmds, j + 1, d.left, d.written))

RECURSIVE Reverse(_)
Reverse(q) == IF q = <<>> THEN <<>> ELSE Append(Reverse(Tail(q)), Head(q))

\* A dispatch that writes the commands last pushed first.
\* C3_ListFraming does not hold of it.
CommandList_dispatch_reversed(cmds, failAt) ==
    DispatchFrom(Reverse(cmds), 1, failAt, <<>>)

\* impl Dispatch for CommandList
CommandList_dispatch(cmds, failAt) == DispatchFrom(cmds, 1, failAt, <<>>)

---------------------------------------------------------------------------
(* The inputs the model draws.                                             *)

\* The longest command list drawn.
MaxCmds == 2

\* The number of run_commands calls made on one connection.
MaxCalls == 2

\* The length of a short read.
MaxChunk == 2

\* DEFAULT_BLOCK_SIZE of util.rs.
DEFAULT_BLOCK_SIZE == 512

\* "<name>: <value>\n" for alternative k of a field table.
FieldLine(table, k, value) ==
    table[k].name \o <<":", " ">> \o value \o <<"\n">>

RECURSIVE FieldLines(_, _)
\* The lines of a payload given as <<alternative, value, ...>> tuples.
FieldLines(table, kvs) ==
    IF kvs = <<>> THEN <<>>
    ELSE FieldLine(table, kvs[1][1], kvs[1][2]) \o FieldLines(table, Tail(kvs))

\* The lines of the status reply of the repository's test (scenario A of
\* the spec) as <<alternative, value on the wire, value the test expects in
\* the Status>>; the time line sets no field.
StatusLinesA ==
    << <<1, <<"8","0">>, 80>>, <<2, <<"1">>, TRUE>>, <<3, <<"1">>, TRUE>>,
       <<4, <<"0">>, FALSE>>, <<5, <<"0">>, FALSE>>, <<6, <<"4">>, 4>>,
       <<7, <<"1">>, 1>>,
       <<8, <<"0",".","0","0","0","0","0","0">>,
            [neg |-> FALSE, whole |-> 0, frac |-> <<>>]>>,
       <<9, <<"p","l","a","y">>, "Play">>,
       <<10, <<"1","0","0","0","0","0","0","0","0","0">>, 1000000000>>,
       <<11, <<"0">>, 0>>, <<12, <<"9">>, 9>>,
       <<13, <<"8","0",":","3","0","2">>, None>>,
       <<14, <<"8","0",".","0","7","4">>, [secs |-> 80, nanos |-> 74000000]>>,
       <<15, <<"3","2","0">>, 320>>,
       <<17, <<"4","4","1","0","0",":","2","4",":","2">>, <<44100, 24, 2>>>>,
       <<18, <<"0">>, 0>>, <<19, <<"9">>, 9>> >>

StatusPayloadA == FieldLines(StatusTable, StatusLinesA)

\* A second status reply: other values, another order, a duration line and
\* no time line.
StatusLinesB ==
    << <<19, <<"3">>, 3>>, <<18, <<"2">>, 2>>,
       <<17, <<"8",":","1","6",":","2">>, <<8, 16, 2>>>>,
       <<16, <<"9",".","5">>, [secs |-> 9, nanos |-> 500000000]>>,
       <<15, <<"6","4">>, 64>>,
       <<14, <<"2",".","5">>, [secs |-> 2, nanos |-> 500000000]>>,
       <<12, <<"7">>, 7>>, <<11, <<"1">>, 1>>, <<10, <<"0">>, 0>>,
       <<9, <<"p","a","u","s","e">>, "Pause">>,
       <<8, <<"-","1","7",".","5">>,
            [neg |-> TRUE, whole |-> 17, frac |-> <<"5">>]>>,
       <<7, <<"5">>, 5>>, <<6, <<"2">>, 2>>, <<5, <<"1">>, TRUE>>,
       <<4, <<"1">>, TRUE>>, <<3, <<"0">>, FALSE>>, <<2, <<"0">>, FALSE>>,
       <<1, <<"7">>, 7>> >>

StatusPayloadB == FieldLines(StatusTable, StatusLinesB)

\* A stats reply, with the values of its Stats.
StatsLines ==
    << <<1, <<"1","2">>, 12>>, <<2, <<"3">>, 3>>, <<3, <<"4","5">>, 45>>,
       <<4, <<"6">>, [secs |-> 6, nanos |-> 0]>>,
       <<5, <<"7">>, [secs |-> 7, nanos |-> 0]>>,
       <<6, <<"8">>, 8>>,
       <<7, <<"9">>, [secs |-> 9, nanos |-> 0]>> >>

StatsPayload == FieldLines(StatsTable, StatsLines)

\* A daemon error line.
AckLine ==
    <<"A","C","K"," ","[","5","0","@","0","]"," ","{","p","l","a","y","}",
      " ","g","o","n","e","\n">>

GreetingOk    == <<"O","K"," ","M","P","D"," ","0",".","1","2",".","2","\n">>
GreetingBogus == <<"O","K"," ","M","P","D"," ","b","o","g","u","s","\n">>

GreetingShort == <<"O","K"," ","M","P","D"," ","0",".","1","2","\n">>
GreetingLower == <<"o","k"," ","M","P","D"," ","0",".","1","2",".","2","\n">>

\* The greetings a daemon sends on connect.
Greetings == {GreetingOk, GreetingBogus, GreetingShort, GreetingLower}

CmdStatus  == [kind |-> "Status"]
CmdStats   == [kind |-> "Stats"]
CmdNext    == [kind |-> "Next"]
CmdConsume == [kind |-> "Consume", on |-> TRUE]

\* The commands the decoder and serializer are checked on.
CmdPool == {CmdStatus, CmdStats, CmdNext, CmdConsume}

\* The commands a client run sends.
ClientPool == {CmdStatus, CmdNext}

\* The length of the lists a client run sends.
ClientMaxCmds == 1

\* The command lists of at most n commands of pool.
Lists(pool, n) == UNION {[1..k -> pool] : k \in 0..n}

\* The payloads a daemon may answer a command with.
PayloadsOf(cmd) ==
    IF cmd.kind = "Status" THEN {StatusPayloadA, StatusPayloadB}
    ELSE IF cmd.kind = "Stats" THEN {StatsPayload}
    ELSE {<<>>}

\* The short payload of a command, for the client runs.
ShortPayload(cmd) ==
    IF cmd.kind = "Status" THEN StatusPayloadB
    ELSE IF cmd.kind = "Stats" THEN StatsPayload
    ELSE <<>>

\* The reply to cmds with payload pl[k] for command k: each payload and its
\* list_OK, then OK.
ReplyBytes(cmds, pl) ==
    Concat([k \in 1..Len(cmds) |-> pl[k] \o TagListOk]) \o TagOk

\* Every valid reply to cmds.
ValidReplies(cmds) ==
    {ReplyBytes(cmds, pl) :
        pl \in {f \in [1..Len(cmds) -> {StatusPayloadA, StatusPayloadB, StatsPayload, <<>>}] :
                    \A k \in 1..Len(cmds) : f[k] \in PayloadsOf(cmds[k])}}

\* What a protocol-following daemon answers to cmds: the valid reply, or the
\* replies of the first k commands and then an error line for command k+1.
DaemonReplies(cmds) ==
    {[kind |-> "valid",
      bytes |-> ReplyBytes(cmds, [k \in 1..Len(cmds) |-> ShortPayload(cmds[k])])]}
    \cup
    {[kind |-> "ack",
      bytes |-> Concat([j \in 1..k |-> ShortPayload(cmds[j]) \o TagListOk]) \o AckLine] :
        k \in 0..(Len(cmds) - 1)}

NoReply == [kind |-> "none", bytes |-> <<>>]

---------------------------------------------------------------------------
(* The client and its connection (client.rs, util.rs).                     *)

VARIABLES
    pc,        \* where the client is: "init", "handshake" (in connect's
               \* Buffer::parse), "idle" (a Client exists, no call running),
               \* "reading" (in run_commands' Buffer::parse), "noclient"
               \* (connect returned Err), "aborted" (the thread panicked)
    version,   \* Client.version: None until connect succeeds
    cmds,      \* the CommandList of the current or last call
    sent,      \* the bytes the current or last call wrote to the socket
    inflight,  \* bytes the daemon sent that the client has not read yet
    srvClosed, \* the daemon's side of the stream has ended
    buf,       \* Buffer.buf of the running Buffer::parse
    pos,       \* Buffer.pos
    cap,       \* buf.capacity()
    res,       \* what the last connect / run_commands returned
    response,  \* the local `response` of run_commands (the decoded value)
    last,      \* the kind of IResult the parser gave last, "none" before
    lastAmt,   \* what the last fetch returned, -1 before the first
    reply,     \* what the daemon sent last: its greeting, or its answer to
               \* the current call
    calls,     \* run_commands calls made so far
    ioErr,     \* the transport failure met by the current call, or "none"
    dec,       \* a decode on a whole input: its outcome
    out        \* a dispatch into a sink: its outcome

vars == <<pc, version, cmds, sent, inflight, srvClosed, buf, pos, cap, res,
          response, last, lastAmt, reply, calls, ioErr, dec, out>>

NoRes == [t |-> "none"]

\* Buffer::new(): an empty Vec of capacity block_size, pos 0.
NewBuffer ==
    /\ buf' = <<>>
    /\ pos' = 0
    /\ cap' = DEFAULT_BLOCK_SIZE

\* The capacity after the reserve of Buffer::fetch on a Buffer::new(): a
\* full Vec is grown by Vec::reserve(block_size), to twice its capacity or
\* by the block size, whichever is more.
FetchCapacity(b, c) ==
    IF c = Len(b)
    THEN IF 2 * c > c + DEFAULT_BLOCK_SIZE THEN 2 * c ELSE c + DEFAULT_BLOCK_SIZE
    ELSE c

\* The capacities Vec::reserve(additional) leaves a Vec<u8> of length n and
\* capacity c with: unchanged when the spare room suffices; otherwise the
\* larger of twice the capacity and n + additional, which the newer
\* standard libraries raise to 8 when it is less.
Reserved(n, c, additional) ==
    IF c - n >= additional THEN {c}
    ELSE With(IF 2 * c > n + additional THEN 2 * c ELSE n + additional,
              LAMBDA m : {m, IF m < 8 THEN 8 ELSE m})

\* impl Index<RangeFull> for Buffer: buf[pos..]
BufferView(b, p) == SliceFrom(b, p)

\* The parser Buffer::parse was called with, on i.
Parser(at, list, i) ==
    IF at = "handshake" THEN parse_handshake(i)
    ELSE CommandList_parse_response(list, i)

\* A fetch that overwrites the buffer with what it read.
\* C4_ChunkingAgrees does not hold of it.
Fetched_overwrite(b, src, amt) == SliceTo(src, amt)

\* A fetch that puts what it read in front of the stored bytes.
\* C30_FetchAppends does not hold of it.
Fetched_in_front(b, src, amt) == SliceTo(src, amt) \o b

\* Buffer.buf after a read of amt bytes from the source src: the Vec with
\* the bytes read appended.
Fetched(b, src, amt) == b \o SliceTo(src, amt)

\* A client whose run_commands keeps the version only when the call fails.
\* C28_VersionKept does not hold of it.
Matched_forgetful(b, r) ==
    /\ buf' = b
    /\ last' = r.t
    /\ UNCHANGED <<cmds, sent, srvClosed, reply, calls, ioErr, dec, out>>
    /\ IF r.t = "Done" THEN
            /\ pos' = pos + Len(r.rest)
            /\ IF pc = "handshake"
               THEN /\ version' = Some(r.o)
                    /\ res' = [t |-> "Ok", v |-> r.o]
                    /\ response' = response
               ELSE /\ response' = r.o
                    /\ res' = [t |-> "Ok", v |-> <<>>]
                    /\ version' = Some([major |-> 0, minor |-> 0, patch |-> 0])
            /\ pc' = "idle"
       ELSE IF r.t = "Error" THEN
            /\ res' = [t |-> "Err", e |-> "Parse", kind |-> r.kind]
            /\ pc' = IF pc = "handshake" THEN "noclient" ELSE "idle"
            /\ UNCHANGED <<pos, version, response>>
       ELSE IF r.t = "Incomplete" THEN
            UNCHANGED <<pc, pos, version, response, res>>
       ELSE /\ pc' = "aborted"
            /\ UNCHANGED <<pos, version, response, res>>

\* The match on the parser's result in Buffer::parse and, when it returns,
\* the match of the caller (connect or run_commands) on what it returned.
\* b is the buffer after the fetch and r what the parser made of it.
Matched(b, r) ==
    /\ buf' = b
    /\ last' = r.t
    /\ UNCHANGED <<cmds, sent, srvClosed, reply, calls, ioErr, dec, out>>
    /\ IF r.t = "Done" THEN
            /\ pos' = pos + Len(r.rest)
            /\ IF pc = "handshake"
               THEN /\ version' = Some(r.o)
                    /\ res' = [t |-> "Ok", v |-> r.o]
                    /\ response' = response
               ELSE /\ response' = r.o
                    /\ res' = [t |-> "Ok", v |-> <<>>]
                    /\ version' = version
            /\ pc' = "idle"
       ELSE IF r.t = "Error" THEN
            /\ res' = [t |-> "Err", e |-> "Parse", kind |-> r.kind]
            /\ pc' = IF pc = "handshake" THEN "noclient" ELSE "idle"
            /\ UNCHANGED <<pos, version, response>>
       ELSE IF r.t = "Incomplete" THEN
            UNCHANGED <<pc, pos, version, response, res>>
       ELSE /\ pc' = "aborted"
            /\ UNCHANGED <<pos, version, response, res>>

\* The rest of a turn of the loop of Buffer::parse once fetch has returned
\* with the buffer b: parser(&buf[..]) and the match on its result.
AfterFetch(b) == Matched(b, Parser(pc, cmds, BufferView(b, pos)))

\* What a read may return when n bytes are there and fit: a short read of
\* at most MaxChunk bytes, or all n.
ReadAmounts(n) == {a \in 1..n : a <= MaxChunk \/ a = n}

\* One turn of the loop of Buffer::parse in which the read returns data: a
\* non-empty part of what has arrived that fits the spare capacity.
FetchData ==
    /\ pc \in {"handshake", "reading"}
    /\ inflight # <<>>
    /\ LET c == FetchCapacity(buf, cap) IN
       \E amt \in ReadAmounts(Min(Len(inflight), c - Len(buf))) :
          /\ cap' = c
          /\ lastAmt' = amt
          /\ inflight' = SliceFrom(inflight, amt)
          /\ AfterFetch(Fetched(buf, inflight, amt))

\* One turn of the loop in which the read returns Ok(0): the stream has
\* ended and nothing is left to read.
FetchEof ==
    /\ pc \in {"handshake", "reading"}
    /\ inflight = <<>>
    /\ srvClosed
    /\ cap' = FetchCapacity(buf, cap)
    /\ lastAmt' = 0
    /\ inflight' = inflight
    /\ AfterFetch(Fetched(buf, inflight, 0))

\* A fetch that drops what it holds when the read fails.
Unread_cleared(b) == <<>>

\* The Vec after a fetch whose read returned Err: `?` returns before
\* set_len, so the length and the bytes below it are the ones on entry.
Unread(b) == b

\* One turn of the loop in which the read returns Err: fetch returns it and
\* the unwrap() of Buffer::parse panics.
FetchFail ==
    /\ pc \in {"handshake", "reading"}
    /\ pc' = "aborted"
    /\ ioErr' = "read"
    /\ cap' = FetchCapacity(buf, cap)
    /\ buf' = Unread(buf)
    /\ UNCHANGED <<version, cmds, sent, inflight, srvClosed, pos, res,
                   response, last, lastAmt, reply, calls, dec, out>>

\* Client::connect up to its first read: the TCP connection is made and the
\* daemon sends its greeting.
Connect ==
    /\ pc = "init"
    /\ \E g \in Greetings :
          /\ inflight' = g
          /\ reply' = [kind |-> "greeting", bytes |-> g]
    /\ NewBuffer
    /\ pc' = "handshake"
    /\ UNCHANGED <<version, cmds, sent, srvClosed, res, response, last,
                   lastAmt, calls, ioErr, dec, out>>

\* Client::connect when TcpStream::connect fails: `?` returns the error.
ConnectFail ==
    /\ pc = "init"
    /\ pc' = "noclient"
    /\ res' = [t |-> "Err", e |-> "Io"]
    /\ ioErr' = "connect"
    /\ UNCHANGED <<version, cmds, sent, inflight, srvClosed, buf, pos, cap,
                   response, last, lastAmt, reply, calls, dec, out>>

\* What the dispatch d of list leaves behind: the bytes written, the
\* failure of the sink if any, and the answer of a daemon that received the
\* whole list.
Dispatched(list, d) ==
    /\ cmds' = list
    /\ sent' = d.written
    /\ ioErr' = IF d.res = "Err" THEN "write" ELSE "none"
    /\ pc' = IF d.res = "Panic" THEN "aborted" ELSE "reading"
    /\ IF d.res = "Ok"
       THEN \E a \in DaemonReplies(list) :
              /\ reply' = a
              /\ inflight' = inflight \o a.bytes
       ELSE /\ reply' = NoReply
            /\ inflight' = inflight

\* Client::run_commands up to its first read: the list is dispatched into
\* the socket, the io::Result of dispatch is dropped, and Buffer::parse
\* starts on a new Buffer.  The sink rejects write call failAt (0: none).
\* A daemon that received the whole list answers it.
RunCommands ==
    /\ pc = "idle"
    /\ calls < MaxCalls
    /\ \E list \in Lists(ClientPool, ClientMaxCmds),
          failAt \in 0..(ClientMaxCmds + 2) :
          /\ failAt <= Len(list) + 2
          /\ Dispatched(list, CommandList_dispatch(list, failAt))
    /\ NewBuffer
    /\ calls' = calls + 1
    /\ res' = NoRes
    /\ response' = <<>>
    /\ last' = "none"
    /\ lastAmt' = -1
    /\ UNCHANGED <<version, srvClosed, dec, out>>

\* The daemon's side of the stream ends; what the client has not read yet
\* still arrives, or is lost.
DaemonClose ==
    /\ pc \in {"handshake", "idle", "reading"}
    /\ ~srvClosed
    /\ srvClosed' = TRUE
    /\ inflight' \in {inflight, <<>>}
    /\ UNCHANGED <<pc, version, cmds, sent, buf, pos, cap, res, response, last,
                   lastAmt, reply, calls, ioErr, dec, out>>

Init ==
    /\ pc = "init"
    /\ version = None
    /\ cmds = <<>>
    /\ sent = <<>>
    /\ inflight = <<>>
    /\ srvClosed = FALSE
    /\ buf = <<>>
    /\ pos = 0
    /\ cap = 0
    /\ res = NoRes
    /\ response = <<>>
    /\ last = "none"
    /\ lastAmt = -1
    /\ reply = NoReply
    /\ calls = 0
    /\ ioErr = "none"
    /\ dec = NoRes
    /\ out = NoRes

Next ==
    \/ Connect
    \/ ConnectFail
    \/ FetchData
    \/ FetchEof
    \/ FetchFail
    \/ RunCommands
    \/ DaemonClose

\* One client on one connection: connect, then run_commands calls.
Spec == Init /\ [][Next]_vars

---------------------------------------------------------------------------
(* Buffer::parse on a valid reply (util.rs): a run_commands call whose     *)
(* list was written whole and whose reply is on its way, delivered in      *)
(* reads of any of the lengths ReadAmounts allows.                         *)

\* The commands of the lists these runs decode replies to.
BufferPool == {CmdStatus, CmdStats, CmdNext}

\* The longest reply these runs deliver, in bytes.
MaxReply == 256

\* The valid replies to list that are delivered.
BufferReplies(list) == {r \in ValidReplies(list) : Len(r) <= MaxReply}

InitBuffer ==
    /\ pc = "reading"
    /\ version = Some([major |-> 0, minor |-> 12, patch |-> 2])
    /\ cmds \in {l \in Lists(BufferPool, MaxCmds) : BufferReplies(l) # {}}
    /\ sent = CommandList_dispatch(cmds, 0).written
    /\ reply \in {[kind |-> "valid", bytes |-> r] : r \in BufferReplies(cmds)}
    /\ inflight = reply.bytes
    /\ srvClosed = FALSE
    /\ buf = <<>>
    /\ pos = 0
    /\ cap = DEFAULT_BLOCK_SIZE
    /\ res = NoRes
    /\ response = <<>>
    /\ last = "none"
    /\ lastAmt = -1
    /\ calls = 1
    /\ ioErr = "none"
    /\ dec = NoRes
    /\ out = NoRes

NextBuffer == FetchData

SpecBuffer == InitBuffer /\ [][NextBuffer]_vars

---------------------------------------------------------------------------
(* The decoder and the serializer as functions (protocol/command.rs):      *)
(* CommandList::parse_response on a slice, CommandList::dispatch into a    *)
(* sink.  The slice is buf.                                                *)

\* A reply as the sequence of its items: payloads and markers.
Markers == {"list_OK", "OK"}

ItemsOf(cmd) ==
    IF cmd.kind = "Status" THEN <<"status", "list_OK">>
    ELSE IF cmd.kind = "Stats" THEN <<"stats", "list_OK">>
    ELSE <<"list_OK">>

\* The items of the reply a daemon gives to list.
Expected(list) ==
    Concat([k \in 1..Len(list) |-> ItemsOf(list[k])]) \o <<"OK">>

ItemBytes(it) ==
    IF it = "status" THEN StatusPayloadB
    ELSE IF it = "stats" THEN StatsPayload
    ELSE IF it = "list_OK" THEN TagListOk
    ELSE TagOk

\* e and what one edit makes of it: an item dropped, a marker put in
\* anywhere (the end included), a marker turned into the other one.
Deviations(e) ==
    {e}
    \cup {SubSeq(e, 1, k - 1) \o SubSeq(e, k + 1, Len(e)) : k \in 1..Len(e)}
    \cup {SubSeq(e, 1, k) \o <<m>> \o SubSeq(e, k + 1, Len(e)) :
            k \in 0..Len(e), m \in Markers}
    \cup {[e EXCEPT ![k] = m] :
            k \in {j \in 1..Len(e) : e[j] \in Markers}, m \in Markers}

\* The slices the decoder of cmds is run on.
DecodeInputs(list) ==
    {Concat([k \in 1..Len(its) |-> ItemBytes(its[k])]) :
        its \in Deviations(Expected(list))}

InitDecode ==
    /\ pc = "idle"
    /\ version = Some([major |-> 0, minor |-> 12, patch |-> 2])
    /\ cmds \in Lists(CmdPool, MaxCmds)
    /\ buf \in DecodeInputs(cmds)
    /\ sent = <<>>
    /\ reply = NoReply
    /\ inflight = <<>>
    /\ srvClosed = FALSE
    /\ pos = 0
    /\ cap = Len(buf)
    /\ res = NoRes
    /\ response = <<>>
    /\ last = "none"
    /\ lastAmt = -1
    /\ calls = 0
    /\ ioErr = "none"
    /\ dec = NoRes
    /\ out = NoRes

\* cmds.parse_response(&buf[..])
Decode ==
    /\ dec = NoRes
    /\ dec' = CommandList_parse_response(cmds, buf)
    /\ UNCHANGED <<pc, version, cmds, sent, inflight, srvClosed, buf, pos, cap,
                   res, response, last, lastAmt, reply, calls, ioErr, out>>

\* cmds.dispatch(&mut sink), the sink rejecting write call failAt (0: none)
Dispatch ==
    /\ out = NoRes
    /\ \E failAt \in 0..(Len(cmds) + 2) :
          out' = CommandList_dispatch(cmds, failAt)
    /\ UNCHANGED <<pc, version, cmds, sent, inflight, srvClosed, buf, pos, cap,
                   res, response, last, lastAmt, reply, calls, ioErr, dec>>

NextDecode == Decode \/ Dispatch

SpecDecode == InitDecode /\ [][NextDecode]_vars

---------------------------------------------------------------------------
(* Client::connect, and the dispatch of the first run_commands.            *)

\* The runs of a connection from Client::connect to the first list
\* dispatched on it, whatever is read in between.
NextConnect ==
    \/ Connect
    \/ ConnectFail
    \/ (pc = "handshake" /\ FetchData)
    \/ (pc = "handshake" /\ FetchEof)
    \/ (pc = "handshake" /\ FetchFail)
    \/ (pc = "handshake" /\ DaemonClose)
    \/ (calls = 0 /\ RunCommands)

SpecConnect == Init /\ [][NextConnect]_vars

---------------------------------------------------------------------------
(* The status and stats decoders on replies given line by line.            *)

\* Orders of the lines q: every exchange of two lines, every rotation, the
\* reverse.
Orders(q) ==
    {[q EXCEPT ![a] = q[b], ![b] = q[a]] : a, b \in 1..Len(q)}
    \cup {SubSeq(q, k + 1, Len(q)) \o SubSeq(q, 1, k) : k \in 0..(Len(q) - 1)}
    \cup {Reverse(q)}

\* Every order of the lines q.
AllOrders(q) ==
    {[k \in 1..Len(q) |-> q[p[k]]] : p \in Permutations(1..Len(q))}

\* q, q without one line, every leading part of q, and q with the line of
\* the first alternative sent once more.
Cuts(q) ==
    {q, Append(q, <<1, <<"5">>, 5>>)}
    \cup {SubSeq(q, 1, k - 1) \o SubSeq(q, k + 1, Len(q)) : k \in 1..Len(q)}
    \cup {SubSeq(q, 1, k) : k \in 0..Len(q)}

\* A line no alternative of either table takes.
UnknownLine ==
    <<"u","p","d","a","t","i","n","g","_","d","b",":"," ","1","\n">>

\* The line of the status reply that carries the daemon's error message.
ErrorLine ==
    <<"e","r","r","o","r",":"," ","N","o"," ","f","i","l","e","\n">>

\* What follows the field lines of a reply: a marker, both markers, a
\* daemon error, or an unknown line with a field line and OK after it.
Tails(table) ==
    {TagListOk, TagOk, TagListOk \o TagOk, AckLine,
     UnknownLine \o FieldLine(table, 1, <<"5">>) \o TagOk,
     ErrorLine \o FieldLine(table, 1, <<"5">>) \o TagOk}

FieldReply(table, ls, tl) ==
    [kind |-> "fields", lines |-> ls, tail |-> tl,
     bytes |-> FieldLines(table, ls) \o tl]

\* The replies the decoder of cmd is run on.
FieldReplies(cmd) ==
    IF cmd.kind = "Status" THEN
        {FieldReply(StatusTable, ls, TagListOk) :
            ls \in Orders(StatusLinesA) \cup Orders(StatusLinesB)}
        \cup {FieldReply(StatusTable, ls, tl) :
            ls \in Cuts(StatusLinesA) \cup Cuts(StatusLinesB),
            tl \in Tails(StatusTable)}
    ELSE
        {FieldReply(StatsTable, ls, TagOk) : ls \in AllOrders(StatsLines)}
        \cup {FieldReply(StatsTable, ls, tl) :
            ls \in Cuts(StatsLines), tl \in Tails(StatsTable)}

InitFields ==
    /\ pc = "idle"
    /\ version = Some([major |-> 0, minor |-> 12, patch |-> 2])
    /\ cmds \in {<<CmdStatus>>, <<CmdStats>>}
    /\ reply \in FieldReplies(cmds[1])
    /\ buf = reply.bytes
    /\ sent = <<>>
    /\ inflight = <<>>
    /\ srvClosed = FALSE
    /\ pos = 0
    /\ cap = Len(buf)
    /\ res = NoRes
    /\ response = <<>>
    /\ last = "none"
    /\ lastAmt = -1
    /\ calls = 0
    /\ ioErr = "none"
    /\ dec = NoRes
    /\ out = NoRes

\* cmds[1].parse_response(&buf[..])
DecodeReply ==
    /\ dec = NoRes
    /\ dec' = Command_parse_response(cmds[1], buf)
    /\ UNCHANGED <<pc, version, cmds, sent, inflight, srvClosed, buf, pos, cap,
                   res, response, last, lastAmt, reply, calls, ioErr, out>>

NextFields == DecodeReply

SpecFields == InitFields /\ [][NextFields]_vars

---------------------------------------------------------------------------
(* Command::dispatch and Command::parse_response on every variant.         *)

\* The longest Vec of songs of Priority and PriorityId.
MaxSongs == 2

\* String arguments: plain, with a space, with a line break.
Strs ==
    {<<"a">>, <<"R","o","c","k">>, <<"a"," ","b">>, <<"a","\n","b">>}

\* Values of the unsigned arguments (u8, u16 and u32 alike).
Nums == {0, 10, 255}

Opt(S) == {None} \cup {Some(x) : x \in S}

Ranges == {[start |-> s, end |-> e] : s \in {0, 12}, e \in Opt({3, 40})}

SingleOrRanges ==
    {[t |-> "Single", val |-> n] : n \in Nums}
    \cup {[t |-> "Range", r |-> r] : r \in Ranges}

\* Vecs of at most MaxSongs elements of S.
Vecs(S) == UNION {[1..n -> S] : n \in 0..MaxSongs}

\* The values of enum Command the model draws: every variant.
Commands ==
    {[kind |-> k] :
        k \in {"ClearError", "CurrentSong", "Status", "Stats",
               "ReplayGainStatus", "Next", "Previous", "Stop", "Clear",
               "ListPlaylists"}}
    \cup {[kind |-> "Idle", sub |-> v] : v \in {<<>>, <<"Player">>}}
    \cup {[kind |-> k, on |-> b] :
            k \in {"Consume", "Random", "Repeat", "Single", "Pause"},
            b \in BOOLEAN}
    \cup {[kind |-> k, n |-> n] : k \in {"Crossfade", "Volume"}, n \in Nums}
    \cup {[kind |-> "Play", n |-> n] : n \in Nums \cup {2147483647}}
    \cup {[kind |-> "MixRampDB", n |-> n] : n \in {-32768, -1, 0, 32767}}
    \cup {[kind |-> "MixRampDelay", amt |-> a] : a \in Opt(Nums)}
    \cup {[kind |-> "ReplayGainMode", mode |-> m] :
            m \in {"Off", "Track", "Album", "Auto"}}
    \cup {[kind |-> "Seek", song_position |-> n, time |-> d] :
            n \in Nums, d \in {[secs |-> 1, nanos |-> 500000000]}}
    \cup {[kind |-> "SeekId", song_id |-> s, time |-> d] :
            s \in Strs, d \in {[secs |-> 1, nanos |-> 500000000]}}
    \cup {[kind |-> "SeekCurrent", time |-> d] :
            d \in {[secs |-> 1, nanos |-> 500000000]}}
    \cup {[kind |-> k, id |-> s] : k \in {"PlayId", "DeleteId"}, s \in Strs}
    \cup {[kind |-> "Add", uri |-> s] : s \in Strs}
    \cup {[kind |-> "AddId", uri |-> s, position |-> p] :
            s \in Strs, p \in Opt(Nums)}
    \cup {[kind |-> "Delete", s_or_r |-> x] : x \in SingleOrRanges}
    \cup {[kind |-> "Move", from |-> x, to |-> n] :
            x \in SingleOrRanges, n \in Nums}
    \cup {[kind |-> "MoveId", from |-> s, to |-> n] : s \in Strs, n \in Nums}
    \cup {[kind |-> "PlaylistFind", tag |-> s, needle |-> n] :
            s \in Strs, n \in Strs}
    \cup {[kind |-> "PlaylistId", song |-> p] : p \in Opt(Nums)}
    \cup {[kind |-> "PlaylistInfo", s_or_r |-> p] : p \in Opt(SingleOrRanges)}
    \cup {[kind |-> "PlaylistSearch", tag |-> g, needle |-> n] :
            g \in TagTypes, n \in Strs}
    \cup {[kind |-> k, version |-> s, range |-> p] :
            k \in {"PlaylistChanges", "PlaylistChangesPositionId"},
            s \in Strs, p \in Opt(Ranges)}
    \cup {[kind |-> "Priority", priority |-> n, songs |-> v] :
            n \in Nums, v \in Vecs(SingleOrRanges)}
    \cup {[kind |-> "PriorityId", priority |-> n, songs |-> v] :
            n \in Nums, v \in Vecs(Strs)}
    \cup {[kind |-> "RangeId", id |-> s, range |-> r] :
            s \in Strs, r \in Ranges}
    \cup {[kind |-> "Shuffle", range |-> r] : r \in Ranges}
    \cup {[kind |-> "Swap", pos1 |-> a, pos2 |-> b] : a \in Nums, b \in Nums}
    \cup {[kind |-> "SwapId", id1 |-> a, id2 |-> b] : a \in Strs, b \in Strs}
    \cup {[kind |-> "AddTagId", id |-> s, tag |-> <<g, v>>] :
            s \in Strs, g \in TagTypes, v \in Strs}
    \cup {[kind |-> "ClearTagId", id |-> s, tag |-> g] :
            s \in Strs, g \in TagTypes}
    \cup {[kind |-> k, name |-> s] :
            k \in {"ListPlaylist", "ListPlaylistInfo", "PlaylistClear",
                   "Remove", "Save"},
            s \in Strs}
    \cup {[kind |-> "Load", name |-> s, range |-> p] :
            s \in Strs, p \in Opt(Ranges)}
    \cup {[kind |-> "PlaylistAdd", playlist |-> s, song |-> u] :
            s \in Strs, u \in Strs}
    \cup {[kind |-> "PlaylistDelete", playlist |-> s, song |-> n] :
            s \in Strs, n \in Nums}
    \cup {[kind |-> "PlaylistMove", playlist |-> s, from |-> a, to |-> b] :
            s \in Strs, a \in Nums, b \in Nums}
    \cup {[kind |-> "Rename", old_name |-> a, new_name |-> b] :
            a \in Strs, b \in Strs}
    \cup {[kind |-> "Count", tag |-> <<g, v>>, group |-> p] :
            g \in TagTypes, v \in Strs, p \in Opt(TagTypes)}
    \cup {[kind |-> "GroupCount", tag |-> g] : g \in TagTypes}

\* One command, and the shortest reply a daemon gives to it alone: its
\* payload and OK.
InitDispatch ==
    /\ pc = "idle"
    /\ version = Some([major |-> 0, minor |-> 12, patch |-> 2])
    /\ cmds \in {<<c>> : c \in Commands}
    /\ buf = ShortPayload(cmds[1]) \o TagOk
    /\ reply = [kind |-> "valid", bytes |-> buf]
    /\ sent = <<>>
    /\ inflight = <<>>
    /\ srvClosed = FALSE
    /\ pos = 0
    /\ cap = Len(buf)
    /\ res = NoRes
    /\ response = <<>>
    /\ last = "none"
    /\ lastAmt = -1
    /\ calls = 0
    /\ ioErr = "none"
    /\ dec = NoRes
    /\ out = NoRes

\* cmds[1].dispatch(&mut sink) into a sink that takes every write.
DispatchCommand ==
    /\ out = NoRes
    /\ out' = Command_dispatch(cmds[1])
    /\ UNCHANGED <<pc, version, cmds, sent, inflight, srvClosed, buf, pos, cap,
                   res, response, last, lastAmt, reply, calls, ioErr, dec>>

NextDispatch == DispatchCommand \/ DecodeReply

SpecDispatch == InitDispatch /\ [][NextDispatch]_vars

---------------------------------------------------------------------------
(* Error lines: parse_error applied to one complete ACK line.              *)

\* Codes outside the table of CmdErrorType::from_code.
UnlistedCodes ==
    {<<"0">>, <<"6">>, <<"4", "9">>, <<"5", "7">>, <<"5", "0", "0">>}

\* Index numerals with the numbers they denote.
AckIndexes == {<<<<"0">>, 0>>, <<<<"1">>, 1>>, <<<<"1", "2">>, 12>>}

AckNames == {<<>>, <<"x">>, <<"p", "l", "a", "y">>}

AckMessages ==
    {<<>>, <<"g", "o", "n", "e">>,
     <<"s", "o", "n", "g", " ", "d", "o", "e", "s", "n", "'", "t", " ", "e", "x", "i", "s", "t", ":", " ", "\"", "1", "0", "2", "4", "0", "\"">>}

LineEnds == {<<"\n">>, <<"\r", "\n">>}

AckBytes(code, index, name, message, ending) ==
    <<"A", "C", "K", " ", "[">> \o code \o <<"@">> \o index \o
    <<"]", " ", "{">> \o name \o <<"}", " ">> \o message \o ending

AckLines ==
    {[kind |-> "ack", code |-> c, index |-> x[2], name |-> n, message |-> m,
      bytes |-> AckBytes(c, x[1], n, m, e)] :
        c \in {ErrorCodes[k][1] : k \in 1..Len(ErrorCodes)} \cup UnlistedCodes,
        x \in AckIndexes, n \in AckNames, m \in AckMessages, e \in LineEnds}

InitError ==
    /\ pc = "idle"
    /\ version = Some([major |-> 0, minor |-> 12, patch |-> 2])
    /\ cmds = <<>>
    /\ reply \in AckLines
    /\ buf = reply.bytes
    /\ sent = <<>>
    /\ inflight = <<>>
    /\ srvClosed = FALSE
    /\ pos = 0
    /\ cap = Len(buf)
    /\ res = NoRes
    /\ response = <<>>
    /\ last = "none"
    /\ lastAmt = -1
    /\ calls = 0
    /\ ioErr = "none"
    /\ dec = NoRes
    /\ out = NoRes

\* parse_error(&buf[..])
DecodeError ==
    /\ dec = NoRes
    /\ dec' = parse_error(buf)
    /\ UNCHANGED <<pc, version, cmds, sent, inflight, srvClosed, buf, pos, cap,
                   res, response, last, lastAmt, reply, calls, ioErr, out>>

NextError == DecodeError

SpecError == InitError /\ [][NextError]_vars

---------------------------------------------------------------------------
(* Values: Command::parse_response on a status reply one of whose lines     *)
(* carries a chosen value, and on arbitrary input for the commands that    *)
(* expect no payload.                                                      *)

\* ls with the value of the line of alternative a replaced by v.
Replaced(ls, a, v) ==
    [k \in 1..Len(ls) |-> IF ls[k][1] = a THEN <<a, v, ls[k][3]>> ELSE ls[k]]

\* Values of a flag line.
FlagValues ==
    {<<"0">>, <<"1">>, <<"1", "0">>, <<"0", "1">>, <<"1", "1">>, <<"0", "0">>,
     <<"2">>, <<"1", " ">>, <<" ", "1">>, <<"o", "n">>, <<"-", "1">>}

\* Values `<secs>.<frac>` of a time line: the seconds and the digits of the
\* fraction.
TimeValues ==
    {[secs |-> s, frac |-> f] :
        s \in {0, 80},
        f \in {<<"5">>, <<"0", "7", "4">>, <<"0", "0", "0">>,
               <<"0", "0", "0", "0", "0", "0", "0", "0", "1">>,
               <<"9", "9", "9", "9", "9", "9", "9", "9", "9">>,
               <<"0", "0", "0", "0", "0", "0", "0", "0", "0", "1">>,
               <<"2", "1", "4", "7", "4", "8", "3", "6", "4", "7">>,
               <<"9", "9", "9", "9", "9", "9", "9", "9", "9", "9">>}}

TimeText(v) == NatDigits(v.secs) \o <<".">> \o v.frac

\* Inputs of a command that expects no payload.
AnyInputs ==
    {<<>>, <<"O">>, TagOk, TagListOk, TagListOk \o TagOk, AckLine,
     StatusPayloadB \o TagOk, <<"x", "\n">>}

\* Values of a line cut short or malformed, for the conversion of the line.
ShortValues(conv) ==
    IF conv = "state"
    THEN {<<"p">>, <<"p", "l", "a">>, <<"s", "t">>, <<>>, <<"x">>,
          <<"p", "l", "a", "y", "s">>}
    ELSE IF conv = "time"
    THEN {<<"8", "0">>, <<"8", "0", ".">>, <<>>, <<"x">>, <<"8", "0", ":", "3">>}
    ELSE {<<>>, <<"x">>}

ValueReplies(cmd) ==
    IF cmd.kind = "Status" THEN
        UNION {{[kind |-> "short", alt |-> a, value |-> v,
                 bytes |-> FieldLines(StatusTable, Replaced(StatusLinesB, a, v))
                              \o TagListOk] :
                   v \in ShortValues(StatusTable[a].conv)} :
               a \in {k \in 1..Len(StatusTable) :
                        StatusTable[k].conv \in {"bool", "state", "time"}}}
        \cup
        {[kind |-> "flag", alt |-> a, value |-> v,
          bytes |-> FieldLines(StatusTable, Replaced(StatusLinesB, a, v))
                       \o TagListOk] :
            a \in {k \in 1..Len(StatusTable) : StatusTable[k].conv = "bool"},
            v \in FlagValues}
        \cup
        {[kind |-> "time", alt |-> a, value |-> v,
          bytes |-> FieldLines(StatusTable,
                               Replaced(StatusLinesB, a, TimeText(v)))
                       \o TagListOk] :
            a \in {k \in 1..Len(StatusTable) : StatusTable[k].conv = "time"},
            v \in TimeValues}
    ELSE {[kind |-> "any", bytes |-> b] : b \in AnyInputs}

InitValues ==
    /\ pc = "idle"
    /\ version = Some([major |-> 0, minor |-> 12, patch |-> 2])
    /\ cmds \in {<<c>> : c \in {CmdStatus} \cup
                              {b \in Commands : b.kind \in BlankKinds}}
    /\ reply \in ValueReplies(cmds[1])
    /\ buf = reply.bytes
    /\ sent = <<>>
    /\ inflight = <<>>
    /\ srvClosed = FALSE
    /\ pos = 0
    /\ cap = Len(buf)
    /\ res = NoRes
    /\ response = <<>>
    /\ last = "none"
    /\ lastAmt = -1
    /\ calls = 0
    /\ ioErr = "none"
    /\ dec = NoRes
    /\ out = NoRes

NextValues == DecodeReply

SpecValues == InitValues /\ [][NextValues]_vars

---------------------------------------------------------------------------
(* Dispatch into a sink that rejects one of the write calls made on it.    *)

PrioritySongs ==
    <<[t |-> "Single", val |-> 10],
      [t |-> "Range", r |-> [start |-> 0, end |-> Some(3)]]>>

\* The commands dispatched into the failing sink.
SinkPool ==
    {CmdStatus, CmdConsume,
     [kind |-> "Priority", priority |-> 10, songs |-> <<>>],
     [kind |-> "Priority", priority |-> 255, songs |-> PrioritySongs],
     [kind |-> "PriorityId", priority |-> 0, songs |-> <<<<"a">>>>]}

\* The most write calls a dispatch of these lists makes.
MaxWrites == 2 + MaxCmds * (2 + MaxSongs)

InitSink ==
    /\ pc = "idle"
    /\ version = Some([major |-> 0, minor |-> 12, patch |-> 2])
    /\ cmds \in Lists(SinkPool, MaxCmds)
    /\ buf = <<>>
    /\ sent = <<>>
    /\ reply = NoReply
    /\ inflight = <<>>
    /\ srvClosed = FALSE
    /\ pos = 0
    /\ cap = 0
    /\ res = NoRes
    /\ response = <<>>
    /\ last = "none"
    /\ lastAmt = -1
    /\ calls = 0
    /\ ioErr = "none"
    /\ dec = NoRes
    /\ out = NoRes

\* cmds[1].dispatch(&mut sink), the sink rejecting write call failAt
DispatchCommandInto ==
    /\ out = NoRes
    /\ cmds # <<>>
    /\ \E failAt \in 0..MaxWrites :
          out' = [of |-> "Command", failAt |-> failAt,
                  d |-> Command_dispatch_into(cmds[1], failAt)]
    /\ UNCHANGED <<pc, version, cmds, sent, inflight, srvClosed, buf, pos, cap,
                   res, response, last, lastAmt, reply, calls, ioErr, dec>>

\* cmds.dispatch(&mut sink), the sink rejecting write call failAt
DispatchListInto ==
    /\ out = NoRes
    /\ \E failAt \in 0..MaxWrites :
          out' = [of |-> "CommandList", failAt |-> failAt,
                  d |-> CommandList_dispatch(cmds, failAt)]
    /\ UNCHANGED <<pc, version, cmds, sent, inflight, srvClosed, buf, pos, cap,
                   res, response, last, lastAmt, reply, calls, ioErr, dec>>

NextSink == DispatchCommandInto \/ DispatchListInto

SpecSink == InitSink /\ [][NextSink]_vars

---------------------------------------------------------------------------
(* A connection and the run_commands calls made on it, each read           *)
(* returning all that has arrived.                                         *)

NextCalls ==
    \/ Connect
    \/ ConnectFail
    \/ (FetchData /\ inflight' = <<>>)
    \/ FetchEof
    \/ FetchFail
    \/ RunCommands
    \/ DaemonClose

SpecCalls == Init /\ [][NextCalls]_vars

---------------------------------------------------------------------------
(* Two connections, each with its own Client (client.rs) and, in every     *)
(* Buffer::parse, its own Buffer (util.rs); their steps interleave.  Here  *)
(* the variables of a connection are indexed by the connection.            *)

Conns == {1, 2}

\* The command lists the two clients send.
TwoLists == {<<>>, <<CmdNext>>}

\* The number of run_commands calls each of the two clients makes.
TwoCalls == 1

\* Both connections read one stream.
\* C29_OwnBytesOnly does not hold of it.
StreamOf_shared(c) == inflight[1]

\* Client.stream of connection c: the bytes on their way to it.
StreamOf(c) == inflight[c]

InitTwo ==
    /\ pc = [c \in Conns |-> "init"]
    /\ version = [c \in Conns |-> None]
    /\ cmds = [c \in Conns |-> <<>>]
    /\ sent = [c \in Conns |-> <<>>]
    /\ inflight = [c \in Conns |-> <<>>]
    /\ srvClosed = FALSE
    /\ buf = [c \in Conns |-> <<>>]
    /\ pos = [c \in Conns |-> 0]
    /\ cap = [c \in Conns |-> 0]
    /\ res = [c \in Conns |-> NoRes]
    /\ response = [c \in Conns |-> <<>>]
    /\ last = [c \in Conns |-> "none"]
    /\ lastAmt = [c \in Conns |-> -1]
    /\ reply = [c \in Conns |-> NoReply]
    /\ calls = [c \in Conns |-> 0]
    /\ ioErr = "none"
    /\ dec = NoRes
    /\ out = NoRes

\* Client::connect of connection c up to its first read.
ConnectOf(c) ==
    /\ pc[c] = "init"
    /\ \E g \in Greetings :
          /\ inflight' = [inflight EXCEPT ![c] = g]
          /\ reply' = [reply EXCEPT ![c] = [kind |-> "greeting", bytes |-> g]]
    /\ buf' = [buf EXCEPT ![c] = <<>>]
    /\ pos' = [pos EXCEPT ![c] = 0]
    /\ cap' = [cap EXCEPT ![c] = DEFAULT_BLOCK_SIZE]
    /\ pc' = [pc EXCEPT ![c] = "handshake"]
    /\ UNCHANGED <<version, cmds, sent, srvClosed, res, response, last,
                   lastAmt, calls, ioErr, dec, out>>

\* Client::run_commands of connection c up to its first read, the sink
\* accepting every write.
RunOf(c) ==
    /\ pc[c] = "idle"
    /\ calls[c] < TwoCalls
    /\ \E list \in TwoLists :
          /\ cmds' = [cmds EXCEPT ![c] = list]
          /\ sent' = [sent EXCEPT ![c] = CommandList_dispatch(list, 0).written]
          /\ \E a \in DaemonReplies(list) :
                /\ reply' = [reply EXCEPT ![c] = a]
                /\ inflight' = [inflight EXCEPT ![c] = StreamOf(c) \o a.bytes]
    /\ buf' = [buf EXCEPT ![c] = <<>>]
    /\ pos' = [pos EXCEPT ![c] = 0]
    /\ cap' = [cap EXCEPT ![c] = DEFAULT_BLOCK_SIZE]
    /\ pc' = [pc EXCEPT ![c] = "reading"]
    /\ calls' = [calls EXCEPT ![c] = calls[c] + 1]
    /\ res' = [res EXCEPT ![c] = NoRes]
    /\ response' = [response EXCEPT ![c] = <<>>]
    /\ last' = [last EXCEPT ![c] = "none"]
    /\ lastAmt' = [lastAmt EXCEPT ![c] = -1]
    /\ UNCHANGED <<version, srvClosed, ioErr, dec, out>>

\* The match of Buffer::parse of connection c on the parser's result r and,
\* when it returns, the match of connect or run_commands.
MatchedOf(c, r) ==
    /\ last' = [last EXCEPT ![c] = r.t]
    /\ IF r.t = "Done" THEN
            /\ pos' = [pos EXCEPT ![c] = pos[c] + Len(r.rest)]
            /\ IF pc[c] = "handshake"
               THEN /\ version' = [version EXCEPT ![c] = Some(r.o)]
                    /\ res' = [res EXCEPT ![c] = [t |-> "Ok", v |-> r.o]]
                    /\ response' = response
               ELSE /\ response' = [response EXCEPT ![c] = r.o]
                    /\ res' = [res EXCEPT ![c] = [t |-> "Ok", v |-> <<>>]]
                    /\ version' = version
            /\ pc' = [pc EXCEPT ![c] = "idle"]
       ELSE IF r.t = "Error" THEN
            /\ res' = [res EXCEPT ![c] =
                          [t |-> "Err", e |-> "Parse", kind |-> r.kind]]
            /\ pc' = [pc EXCEPT ![c] =
                         IF pc[c] = "handshake" THEN "noclient" ELSE "idle"]
            /\ UNCHANGED <<pos, version, response>>
       ELSE IF r.t = "Incomplete" THEN
            UNCHANGED <<pc, pos, version, response, res>>
       ELSE /\ pc' = [pc EXCEPT ![c] = "aborted"]
            /\ UNCHANGED <<pos, version, response, res>>

\* One turn of the loop of Buffer::parse of connection c in which the read
\* returns data.
FetchOf(c) ==
    /\ pc[c] \in {"handshake", "reading"}
    /\ StreamOf(c) # <<>>
    /\ \E amt \in ReadAmounts(Min(Len(StreamOf(c)),
                                  FetchCapacity(buf[c], cap[c]) - Len(buf[c]))) :
          /\ cap' = [cap EXCEPT ![c] = FetchCapacity(buf[c], cap[c])]
          /\ lastAmt' = [lastAmt EXCEPT ![c] = amt]
          /\ inflight' = [inflight EXCEPT ![c] = SliceFrom(StreamOf(c), amt)]
          /\ buf' = [buf EXCEPT ![c] = Fetched(buf[c], StreamOf(c), amt)]
          /\ MatchedOf(c, Parser(pc[c], cmds[c],
                                 BufferView(Fetched(buf[c], StreamOf(c), amt),
                                            pos[c])))
    /\ UNCHANGED <<cmds, sent, srvClosed, reply, calls, ioErr, dec, out>>

NextTwo == \E c \in Conns : ConnectOf(c) \/ RunOf(c) \/ FetchOf(c)

SpecTwo == InitTwo /\ [][NextTwo]_vars

---------------------------------------------------------------------------
(* Buffer::fetch on a Buffer::with_block_size, each call reading from a    *)
(* slice of its own, as the tests of util.rs do.                           *)

\* The block size of test_with_realloc.
TestBlockSize == 2

\* The longest store these runs fill.
MaxStore == 9

\* The slices the fetches read from: those of the tests, and shorter ones.
Sources ==
    {<<"1", "0", "1">>, <<"3", "4", "5">>, <<"7">>, <<"8", "9">>}

InitGrow ==
    /\ pc = "fetching"
    /\ version = None
    /\ cmds = <<>>
    /\ sent = <<>>
    /\ inflight = <<>>
    /\ srvClosed = FALSE
    /\ buf = <<>>
    /\ pos = 0
    /\ cap = TestBlockSize
    /\ res = NoRes
    /\ response = <<>>
    /\ last = "none"
    /\ lastAmt = -1
    /\ reply = NoReply
    /\ calls = 0
    /\ ioErr = "none"
    /\ dec = NoRes
    /\ out = NoRes

\* b.fetch(&mut &data[..]): the reserve of a full Vec, then the read of a
\* slice, which copies as much of the slice as the spare capacity takes.
FetchSlice ==
    /\ pc = "fetching"
    /\ Len(buf) < MaxStore
    /\ \E data \in Sources :
       \E c \in (IF cap = Len(buf)
                 THEN Reserved(Len(buf), cap, TestBlockSize)
                 ELSE {cap}) :
          /\ cap' = c
          /\ lastAmt' = Min(Len(data), c - Len(buf))
          /\ buf' = Fetched(buf, data, Min(Len(data), c - Len(buf)))
          /\ inflight' = SliceFrom(data, Min(Len(data), c - Len(buf)))
          /\ reply' = [kind |-> "slice", bytes |-> data]
    /\ UNCHANGED <<pc, version, cmds, sent, srvClosed, pos, res, response,
                   last, calls, ioErr, dec, out>>

NextGrow == FetchSlice

SpecGrow == InitGrow /\ [][NextGrow]_vars

---------------------------------------------------------------------------
(* Buffer::fetch from a source whose read may fail, on a buffer that       *)
(* earlier fetches and parses have left with bytes, a cursor and spare     *)
(* capacity of any amount.                                                 *)

\* The bytes a buffer holds on entry: a leading part of these.
Stored == <<"1", "0", "3", "4">>

InitFail ==
    /\ pc = "fetching"
    /\ version = None
    /\ cmds = <<>>
    /\ sent = <<>>
    /\ inflight = <<>>
    /\ srvClosed = FALSE
    /\ \E n \in 0..Len(Stored) : buf = SliceTo(Stored, n)
    /\ pos \in 0..Len(buf)
    /\ cap \in {c \in TestBlockSize..(2 * Len(Stored)) : c >= Len(buf)}
    /\ res = NoRes
    /\ response = <<>>
    /\ last = "none"
    /\ lastAmt = -1
    /\ reply = NoReply
    /\ calls = 0
    /\ ioErr = "none"
    /\ dec = NoRes
    /\ out = NoRes

\* b.fetch(&mut reader) with a read that returns Err: the reserve of a full
\* Vec has been made, `?` returns the error before set_len.
FetchErr ==
    /\ pc = "fetching"
    /\ pc' = "failed"
    /\ ioErr' = "read"
    /\ cap' \in (IF cap = Len(buf)
                 THEN Reserved(Len(buf), cap, TestBlockSize)
                 ELSE {cap})
    /\ buf' = Unread(buf)
    /\ UNCHANGED <<version, cmds, sent, inflight, srvClosed, pos, res,
                   response, last, lastAmt, reply, calls, dec, out>>

NextFail == FetchSlice \/ FetchErr

SpecFail == InitFail /\ [][NextFail]_vars

---------------------------------------------------------------------------
(* The loop of Buffer::parse step by step: the fetch, then the parser on   *)
(* the view and the match on its result.  The stream is a finite one: once *)
(* its bytes are read, a read returns Ok(0).  Here calls counts the        *)
(* fetches and the parser invocations of the run.                          *)

\* The number of turns of the loop a run is followed for.
MaxTurns == 6

\* What the stream holds: a greeting, or the reply to [Status].
LoopStreams ==
    {[kind |-> "greeting", bytes |-> g] : g \in Greetings}
    \cup {[kind |-> "ack", bytes |-> AckLine],
          [kind |-> "valid", bytes |-> ReplyBytes(<<CmdStatus>>, <<StatusPayloadB>>)],
          [kind |-> "cut", bytes |-> SliceTo(StatusPayloadB, 30)]}

InitLoop ==
    /\ pc = "loop"
    /\ version = None
    /\ reply \in LoopStreams
    /\ cmds = IF reply.kind = "greeting" THEN <<>> ELSE <<CmdStatus>>
    /\ sent = <<>>
    /\ inflight = reply.bytes
    /\ srvClosed = TRUE
    /\ buf = <<>>
    /\ pos = 0
    /\ cap = DEFAULT_BLOCK_SIZE
    /\ res = NoRes
    /\ response = <<>>
    /\ last = "none"
    /\ lastAmt = -1
    /\ calls = [fetch |-> 0, parser |-> 0]
    /\ ioErr = "none"
    /\ dec = NoRes
    /\ out = NoRes

\* buf.fetch(&mut reader).unwrap() with a read that returns Ok
LoopFetch ==
    /\ pc = "loop"
    /\ calls.fetch < MaxTurns
    /\ \E amt \in (IF inflight = <<>> THEN {0}
                   ELSE ReadAmounts(Min(Len(inflight),
                                        FetchCapacity(buf, cap) - Len(buf)))) :
          /\ lastAmt' = amt
          /\ buf' = Fetched(buf, inflight, amt)
          /\ inflight' = SliceFrom(inflight, amt)
    /\ cap' = FetchCapacity(buf, cap)
    /\ calls' = [calls EXCEPT !.fetch = calls.fetch + 1]
    /\ pc' = "fetched"
    /\ UNCHANGED <<version, cmds, sent, srvClosed, pos, res, response, last,
                   reply, ioErr, dec, out>>

\* A loop that takes the Error arm for one more turn.
MatchArm_retry(t) ==
    IF t = "Done" THEN "returned"
    ELSE IF t \in {"Error", "Incomplete"} THEN "loop"
    ELSE "aborted"

\* A loop that hands Incomplete to the caller.
MatchArm_once(t) ==
    IF t \in {"Done", "Error", "Incomplete"} THEN "returned" ELSE "aborted"

\* Where each arm of the match leaves the loop: Done falls out of it to the
\* return, Error returns, Incomplete goes round again.
MatchArm(t) ==
    IF t \in {"Done", "Error"} THEN "returned"
    ELSE IF t = "Incomplete" THEN "loop"
    ELSE "aborted"

\* match parser(&buf[..]) and the return of Buffer::parse
LoopMatch ==
    /\ pc = "fetched"
    /\ calls' = [calls EXCEPT !.parser = calls.parser + 1]
    /\ With(Parser(IF reply.kind = "greeting" THEN "handshake" ELSE "reading",
                   cmds, BufferView(buf, pos)),
            LAMBDA r :
              /\ last' = r.t
              /\ pc' = MatchArm(r.t)
              /\ IF r.t = "Done"
                 THEN /\ pos' = pos + Len(r.rest)
                      /\ res' = [t |-> "Done", o |-> r.o]
                 ELSE IF r.t = "Error"
                 THEN /\ res' = [t |-> "Error", kind |-> r.kind]
                      /\ pos' = pos
                 ELSE UNCHANGED <<pos, res>>)
    /\ UNCHANGED <<version, cmds, sent, inflight, srvClosed, buf, cap,
                   response, lastAmt, reply, ioErr, dec, out>>

NextLoop == LoopFetch \/ LoopMatch

SpecLoop == InitLoop /\ [][NextLoop]_vars

---------------------------------------------------------------------------
(* The time line: Command::parse_response of Status on a reply with a      *)
(* `time: <value>` line put in at some place, next to the same reply       *)
(* without it.                                                             *)

\* The alternative of StatusTable that takes the time line.
TimeAlt == CHOOSE k \in 1..Len(StatusTable) : StatusTable[k].conv = "ignored"

\* Values of the time line.
TimeLineValues ==
    {<<"8", "0", ":", "3", "0", "2">>, <<>>, <<"0">>, <<" ">>, <<":">>,
     <<"8", "0", ".", "0", "7", "4">>, <<"a", "b", "c">>,
     <<"t", "i", "m", "e", ":", " ", "1">>, <<"O", "K">>,
     <<"8", "\r">>, <<"8", "\r", "0">>}

\* The lines the time line is put in: the reply of the test without its
\* time line, the second reply, and the second reply short of its volume.
TimeBases ==
    {SelectSeq(StatusLinesA, LAMBDA l : l[1] # TimeAlt), StatusLinesB,
     SelectSeq(StatusLinesB, LAMBDA l : l[1] # 1)}

\* The replies: the time line after the first k lines of ls.
TimeReplies ==
    UNION {{[kind |-> "timed", at |-> k, value |-> v,
             bytes |-> FieldLines(StatusTable,
                                  SubSeq(ls, 1, k) \o << <<TimeAlt, v, None>> >>
                                     \o SubSeq(ls, k + 1, Len(ls))) \o TagListOk,
             plain |-> FieldLines(StatusTable, ls) \o TagListOk] :
               k \in 0..Len(ls), v \in TimeLineValues} : ls \in TimeBases}

InitTime ==
    /\ pc = "idle"
    /\ version = Some([major |-> 0, minor |-> 12, patch |-> 2])
    /\ cmds = <<CmdStatus>>
    /\ reply \in TimeReplies
    /\ buf = reply.bytes
    /\ sent = <<>>
    /\ inflight = <<>>
    /\ srvClosed = FALSE
    /\ pos = 0
    /\ cap = Len(buf)
    /\ res = NoRes
    /\ response = <<>>
    /\ last = "none"
    /\ lastAmt = -1
    /\ calls = 0
    /\ ioErr = "none"
    /\ dec = NoRes
    /\ out = NoRes

NextTime == DecodeReply

SpecTime == InitTime /\ [][NextTime]_vars

---------------------------------------------------------------------------
(* Properties.                                                             *)

\* a is a prefix of b.
IsPrefix(a, b) == Len(a) <= Len(b) /\ SubSeq(b, 1, Len(a)) = a

Version_0_12_2 == [major |-> 0, minor |-> 12, patch |-> 2]

\* C1: CommandList::parse_response on a slice succeeds exactly when the
\* slice begins with a valid reply to the list: each command's payload
\* followed by list_OK, and OK after the last marker.  It then gives one
\* response per command and leaves what follows that reply as the rest.  A
\* slice that is neither such a reply (with or without bytes after it) nor a
\* truncation of one, because a marker is missing, extra or in the wrong
\* place, is a decode error.  For the empty list an accepted slice starts
\* with OK.
C1_Framing ==
    dec # NoRes =>
        /\ dec.t = "Done" <=> \E r \in ValidReplies(cmds) : IsPrefix(r, buf)
        /\ dec.t = "Done" =>
              /\ Len(dec.o) = Len(cmds)
              /\ \E r \in ValidReplies(cmds) : buf = r \o dec.rest
        /\ (\A r \in ValidReplies(cmds) : ~IsPrefix(r, buf) /\ ~IsPrefix(buf, r))
              => dec.t = "Error"
        /\ (cmds = <<>> /\ dec.t = "Done") => IsPrefix(<<"O","K","\n">>, buf)

\* A reply to [Status, Next] without the second list_OK was decoded.
C1_Witness ==
    /\ dec # NoRes
    /\ dec.t = "Error"
    /\ cmds = <<CmdStatus, CmdNext>>
    /\ buf = StatusPayloadB \o <<"l","i","s","t","_","O","K","\n","O","K","\n">>

\* C2: when run_commands returns Ok, the vector it returns is the decoded
\* response: one entry per command of the list.
C2_ReturnsDecoded ==
    (pc = "idle" /\ calls > 0 /\ res.t = "Ok") =>
        (res.v = response /\ Len(res.v) = Len(cmds))

\* C3: a dispatch that returns Ok has written command_list_ok_begin, the
\* line of each command in push order, command_list_end, and nothing else;
\* the empty list writes the two framing lines only.
C3_ListFraming ==
    (out # NoRes /\ out.res = "Ok") =>
        /\ out.written =
              <<"c","o","m","m","a","n","d","_","l","i","s","t","_","o","k","_",
              "b","e","g","i","n","\n">>
              \o Concat([k \in 1..Len(cmds) |-> Command_dispatch(cmds[k]).bytes])
              \o <<"c","o","m","m","a","n","d","_","l","i","s","t","_","e","n","d",
                 "\n">>
        /\ cmds = <<>> =>
              out.written =
                <<"c","o","m","m","a","n","d","_","l","i","s","t","_","o","k","_",
                "b","e","g","i","n","\n","c","o","m","m","a","n","d","_","l","i",
                "s","t","_","e","n","d","\n">>

\* [Consume(true), Status] was dispatched.
C3_Witness ==
    /\ out # NoRes
    /\ out.res = "Ok"
    /\ cmds = <<CmdConsume, CmdStatus>>
    /\ out.written =
          <<"c","o","m","m","a","n","d","_","l","i","s","t","_","o","k","_",
          "b","e","g","i","n","\n","c","o","n","s","u","m","e"," ","1","\n",
          "s","t","a","t","u","s","\n","c","o","m","m","a","n","d","_","l",
          "i","s","t","_","e","n","d","\n">>

\* C4: once a valid reply has been delivered, in one read or in several,
\* Buffer::parse has returned Done with the value the decoder gives on the
\* whole reply.
C4_ChunkingAgrees ==
    (pc # "reading" \/ inflight = <<>>) =>
        /\ pc = "idle"
        /\ last = "Done"
        /\ res.t = "Ok"
        /\ response = CommandList_parse_response(cmds, reply.bytes).o

\* The scenario-A reply to [Status, Next] was decoded after a last read of
\* one byte.
C4_Witness ==
    /\ pc = "idle"
    /\ res.t = "Ok"
    /\ cmds = <<CmdStatus, CmdNext>>
    /\ reply.bytes = ReplyBytes(cmds, <<StatusPayloadA, <<>>>>)
    /\ lastAmt = 1

\* C5: a valid greeting gives its version however it is split into reads.
C5_HandshakeChunking ==
    (pc \in {"idle", "noclient"} /\ calls = 0
        /\ reply = [kind |-> "greeting", bytes |-> GreetingOk])
    => version = Some(Version_0_12_2)

\* C6: after a read of zero bytes with the decoder still Incomplete,
\* Buffer::parse has returned an error.
C6_EofEnds ==
    (lastAmt = 0 /\ last = "Incomplete") =>
        (pc \notin {"handshake", "reading"} /\ res.t = "Err")

\* C7: a failed write or read of a run_commands call ends the call with an
\* I/O error value.
C7_TransportErrorReturned ==
    (calls > 0 /\ ioErr \in {"write", "read"}) =>
        (pc = "idle" /\ res = [t |-> "Err", e |-> "Io"])

\* C8: a call the daemon answered with an ACK line returns the daemon's
\* error, not a decode failure.
C8_AckSurfaced ==
    (pc = "idle" /\ calls > 0 /\ reply.kind = "ack" /\ res # NoRes) =>
        (res.t = "Err" /\ res.e = "Cmd")

\* C9: on a proper prefix of a valid reply the decoder reports Incomplete.
C9_PrefixIncomplete ==
    (last # "none" /\ Len(buf) < Len(reply.bytes)) =>
        (buf = SliceTo(reply.bytes, Len(buf)) /\ pos = 0 /\ last = "Incomplete")

\* The decoder ran on a status reply cut inside its list_OK.
C9_Witness ==
    /\ last = "Incomplete"
    /\ cmds = <<CmdStatus>>
    /\ reply.bytes = ReplyBytes(cmds, <<StatusPayloadB>>)
    /\ Len(buf) = Len(StatusPayloadB) + 4

\* C10: when a call has written its list and not read yet, the only bytes on
\* their way to the client are the reply to that list: nothing of an earlier
\* reply is left.
C10_NoDispatchWhilePending ==
    (pc = "reading" /\ last = "none") => Len(inflight) <= Len(reply.bytes)


\* C11: a Client exists only after the greeting `OK MPD 0.12.2\n` was
\* matched, and then holds the version 0.12.2.  After any other greeting no
\* Client exists, no version is recorded, nothing is ever written to the
\* connection, and once the whole line is in the buffer connect has
\* returned the parser's error.
C11_ClientOnlyAfterGreeting ==
    /\ (pc \in {"idle", "reading"} => version = Some(Version_0_12_2))
    /\ (pc \in {"idle", "reading"} /\ calls = 0 => reply.bytes = GreetingOk)
    /\ (reply.kind = "greeting" /\ reply.bytes # GreetingOk =>
          /\ pc \in {"handshake", "noclient", "aborted"}
          /\ version = None
          /\ calls = 0
          /\ sent = <<>>
          /\ (buf = reply.bytes =>
                pc = "noclient" /\ res.t = "Err" /\ res.e = "Parse"))

\* connect has read the whole of `OK MPD bogus\n` and returned.
C11_Witness ==
    /\ reply = [kind |-> "greeting", bytes |-> GreetingBogus]
    /\ buf = GreetingBogus
    /\ pc = "noclient"


RECURSIVE Observed(_, _, _)
\* What the lines ls make of the accumulator acc, from the values the
\* lines stand for: each field holds the value of its last line.
Observed(table, ls, acc) ==
    IF ls = <<>> THEN acc
    ELSE Observed(table, Tail(ls),
            IF table[ls[1][1]].conv = "ignored" THEN acc
            ELSE [acc EXCEPT ![table[ls[1][1]].field] = Some(ls[1][3])])

\* a and b hold the same lines, each once, in some order.
SameLines(a, b) ==
    /\ Len(a) = Len(b)
    /\ {<<a[k][1], a[k][2]>> : k \in DOMAIN a}
         = {<<b[k][1], b[k][2]>> : k \in DOMAIN b}

\* C12: the Status decoder takes the field lines of a reply and stops at
\* the first line no alternative takes, which it leaves unconsumed with all
\* that follows.  When every field other than duration, updating_db and
\* error was seen, the result is a Status holding the values the lines
\* stand for (the last one of a field sent twice), and its duration is None
\* when no duration line was sent.
C12_StatusRun ==
    (cmds = <<CmdStatus>> /\ dec # NoRes) =>
        With(Observed(StatusTable, reply.lines, MaybeStatus_default),
             LAMBDA acc :
            /\ dec.t \in {"Done", "Error"}
            /\ dec.t = "Done" <=>
                 \A f \in StatusFields \ {"duration", "updating_db", "error"} :
                    acc[f] # None
            /\ dec.t = "Done" =>
                 /\ dec.rest = reply.tail
                 /\ dec.o.kind = "Status"
                 /\ \A f \in StatusFields \ {"duration", "updating_db", "error"} :
                      dec.o.status[f] = acc[f][1]
                 /\ \A f \in {"duration", "updating_db", "error"} :
                      dec.o.status[f] = acc[f]
                 /\ ((\A k \in DOMAIN reply.lines :
                         StatusTable[reply.lines[k][1]].field # "duration")
                      => dec.o.status.duration = None))

\* The lines of the repository's test, then an unknown line with a volume
\* line after it: the decoder stopped at the unknown line.
C12_Witness ==
    /\ cmds = <<CmdStatus>>
    /\ reply.lines = StatusLinesA
    /\ reply.tail # TagListOk
    /\ IsPrefix(UnknownLine, reply.tail)
    /\ dec.t = "Done"
    /\ dec.rest = reply.tail

\* C13: a status reply whose lines are those of a complete reply in another
\* order decodes to what the complete reply decodes to, a Status.
C13_OrderIndependent ==
    (cmds = <<CmdStatus>> /\ dec # NoRes) =>
        /\ SameLines(reply.lines, StatusLinesA) =>
             /\ dec.t = "Done"
             /\ dec = parse_status_response(StatusPayloadA \o reply.tail)
        /\ SameLines(reply.lines, StatusLinesB) =>
             /\ dec.t = "Done"
             /\ dec = parse_status_response(StatusPayloadB \o reply.tail)

\* The lines of the repository's test in reverse order were decoded.
C13_Witness ==
    /\ cmds = <<CmdStatus>>
    /\ reply.lines = Reverse(StatusLinesA)
    /\ dec.t = "Done"

\* C14: MaybeStatus::try_into gives a Status exactly when every field other
\* than duration, updating_db and error is set, whatever these three hold,
\* and passes these three on as they are; the Status decode is an error
\* exactly when try_into gives None.
C14_TryInto ==
    (cmds = <<CmdStatus>> /\ dec # NoRes) =>
        With(Observed(StatusTable, reply.lines, MaybeStatus_default),
             LAMBDA acc :
            /\ \A ms \in {acc, [acc EXCEPT !.updating_db = Some(1)],
                          [acc EXCEPT !.error = Some(<<"x">>)],
                          [acc EXCEPT !.duration = None]} :
                 With(MaybeStatus_try_into(ms), LAMBDA s :
                    /\ s # None <=>
                         \A f \in StatusFields
                                    \ {"duration", "updating_db", "error"} :
                            ms[f] # None
                    /\ s # None =>
                         /\ s[1].duration = ms.duration
                         /\ s[1].updating_db = ms.updating_db
                         /\ s[1].error = ms.error)
            /\ dec.t = "Error" <=> MaybeStatus_try_into(acc) = None)

\* A reply without its volume line was decoded: an error.
C14_Witness ==
    /\ cmds = <<CmdStatus>>
    /\ reply.lines = Tail(StatusLinesA)
    /\ dec.t = "Error"

\* C15: the Stats decoder gives a Stats exactly when all seven fields were
\* sent, in whatever order, before the first line no alternative takes; it
\* then holds the values the lines stand for and leaves that line and all
\* that follows unconsumed.  With a field missing the decode is an error.
C15_StatsAllSeven ==
    (cmds = <<CmdStats>> /\ dec # NoRes) =>
        With(Observed(StatsTable, reply.lines, MaybeStats_default),
             LAMBDA acc :
            /\ dec.t \in {"Done", "Error"}
            /\ dec.t = "Done" <=>
                 \A f \in {"artists", "albums", "songs", "uptime",
                           "db_playtime", "db_update", "playtime"} :
                    acc[f] # None
            /\ dec.t = "Done" =>
                 /\ dec.rest = reply.tail
                 /\ dec.o = [kind |-> "Stats",
                             stats |-> [f \in StatsFields |-> acc[f][1]]])

\* The seven lines in reverse order were decoded, OK left unconsumed.
C15_Witness ==
    /\ cmds = <<CmdStats>>
    /\ reply.lines = Reverse(StatsLines)
    /\ dec.t = "Done"
    /\ dec.rest = TagOk


\* The number of bytes c in b.
CountOf(b, c) == Cardinality({k \in DOMAIN b : b[k] = c})

\* s is the decimal numeral of n.
Decimal(s, n) == IsNumeral(s) /\ ToNat(s) = n

\* s is `<start>:<end>`, or `<start>:` for a range without end.
RangeText(s, r) ==
    /\ CountOf(s, ":") = 1
    /\ With(CHOOSE k \in DOMAIN s : s[k] = ":", LAMBDA c :
          /\ Decimal(SubSeq(s, 1, c - 1), r.start)
          /\ IF r.end = None THEN c = Len(s)
             ELSE Decimal(SubSeq(s, c + 1, Len(s)), r.end[1]))

\* C16: dispatch writes a line for every variant, parse_response gives a
\* result for every variant, and the shortest reply decodes to a Status for
\* Status, a Stats for Stats and Blank for every other variant.
C16_EveryVariantDefined ==
    /\ out # NoRes => out.t = "Write"
    /\ dec # NoRes =>
         /\ dec.t = "Done"
         /\ dec.o.kind = IF cmds[1].kind \in {"Status", "Stats"}
                         THEN cmds[1].kind ELSE "Blank"

\* C17: what dispatch writes for a command holds one line break, its last
\* byte.
C17_OneLine ==
    out.t = "Write" =>
        /\ out.bytes[Len(out.bytes)] = "\n"
        /\ CountOf(out.bytes, "\n") = 1

\* The string of the arm of Display for TagType written for tag.
ArmOf(tag) == (CHOOSE a \in {TagArms[k] : k \in DOMAIN TagArms} : a.pat = tag).str

\* C18: a tag is written as the string of its own arm: Count without group
\* dispatches `count <spelling> <needle>\n` and GroupCount dispatches
\* `count group <spelling>\n`.
C18_TagSpelling ==
    /\ (out.t = "Write" /\ cmds[1].kind = "Count" /\ cmds[1].group = None) =>
          out.bytes = <<"c","o","u","n","t"," ">> \o ArmOf(cmds[1].tag[1])
                        \o <<" ">> \o cmds[1].tag[2] \o <<"\n">>
    /\ (out.t = "Write" /\ cmds[1].kind = "GroupCount") =>
          out.bytes = <<"c","o","u","n","t"," ","g","r","o","u","p"," ">>
                        \o ArmOf(cmds[1].tag) \o <<"\n">>

\* The variants with an optional argument, the argument, the number of
\* arguments that are not optional, and the string among these.
OptKinds ==
    {"MixRampDelay", "AddId", "PlaylistId", "PlaylistInfo", "PlaylistChanges",
     "PlaylistChangesPositionId", "Load", "Count"}

OptArg(c) ==
    IF c.kind = "MixRampDelay" THEN c.amt
    ELSE IF c.kind = "AddId" THEN c.position
    ELSE IF c.kind = "PlaylistId" THEN c.song
    ELSE IF c.kind = "PlaylistInfo" THEN c.s_or_r
    ELSE IF c.kind = "Count" THEN c.group
    ELSE c.range

WithoutOpt(c) ==
    IF c.kind = "MixRampDelay" THEN [c EXCEPT !.amt = None]
    ELSE IF c.kind = "AddId" THEN [c EXCEPT !.position = None]
    ELSE IF c.kind = "PlaylistId" THEN [c EXCEPT !.song = None]
    ELSE IF c.kind = "PlaylistInfo" THEN [c EXCEPT !.s_or_r = None]
    ELSE IF c.kind = "Count" THEN [c EXCEPT !.group = None]
    ELSE [c EXCEPT !.range = None]

Arity(c) ==
    IF c.kind \in {"MixRampDelay", "PlaylistId", "PlaylistInfo"} THEN 0
    ELSE IF c.kind = "Count" THEN 2 ELSE 1

StrArg(c) ==
    IF c.kind = "AddId" THEN c.uri
    ELSE IF c.kind \in {"PlaylistChanges", "PlaylistChangesPositionId"}
    THEN c.version
    ELSE IF c.kind = "Load" THEN c.name
    ELSE IF c.kind = "Count" THEN c.tag[2]
    ELSE <<>>

\* An absent optional argument leaves the name and the other arguments, no
\* placeholder and no space before the line break; MixRampDelay(None)
\* writes `mixrampdelay nan\n`.
AbsentOmitted(c, b) ==
    IF c.kind = "MixRampDelay"
    THEN b = <<"m","i","x","r","a","m","p","d","e","l","a","y"," ",
               "n","a","n","\n">>
    ELSE /\ b[Len(b)] = "\n"
         /\ b[Len(b) - 1] # " "
         /\ CountOf(b, " ") = Arity(c) + CountOf(StrArg(c), " ")

\* b is the line lead, then sep, then one token without a space or line
\* break, then the line break.
OneMore(lead, sep, b) ==
    /\ IsPrefix(lead \o sep, b)
    /\ Len(b) > Len(lead) + Len(sep) + 1
    /\ b[Len(b)] = "\n"
    /\ \A k \in (Len(lead) + Len(sep) + 1)..(Len(b) - 1) :
          b[k] \notin {" ", "\n"}

\* The line of c without its optional argument, less the line break.
LeadOf(c) ==
    IF c.kind = "MixRampDelay"
    THEN <<"m","i","x","r","a","m","p","d","e","l","a","y">>
    ELSE With(Command_dispatch(WithoutOpt(c)).bytes,
              LAMBDA w : SubSeq(w, 1, Len(w) - 1))

\* C19: an absent optional argument is left out of the line, but for
\* MixRampDelay(None), which writes `mixrampdelay nan\n`; a present one adds
\* one token after a space to the line without it, but for the group of
\* Count, which adds the word `group` and then the tag: two tokens.
C19_OptionalArgs ==
    (out.t = "Write" /\ cmds[1].kind \in OptKinds) =>
        IF OptArg(cmds[1]) = None THEN AbsentOmitted(cmds[1], out.bytes)
        ELSE IF cmds[1].kind = "Count"
        THEN OneMore(LeadOf(cmds[1]), <<" ","g","r","o","u","p"," ">>,
                     out.bytes)
        ELSE OneMore(LeadOf(cmds[1]), <<" ">>, out.bytes)

\* Count with a group was dispatched.
C19_Witness ==
    /\ cmds = <<[kind |-> "Count", tag |-> <<"Genre", <<"R","o","c","k">>>>,
                 group |-> Some("Artist")]>>
    /\ out = Written(<<"c","o","u","n","t"," ","a","r","t","i","s","t"," ",
                       "R","o","c","k"," ","g","r","o","u","p"," ",
                       "a","r","t","i","s","t","\n">>)

\* C19 as stated: every present optional argument, the group of Count
\* included, adds exactly one token after a space.
C19_OneToken ==
    (out.t = "Write" /\ cmds[1].kind \in OptKinds) =>
        IF OptArg(cmds[1]) = None THEN AbsentOmitted(cmds[1], out.bytes)
        ELSE OneMore(LeadOf(cmds[1]), <<" ">>, out.bytes)

\* C20: Delete writes its SingleOrRange as the decimal index for Single and
\* as the range for Range, and Shuffle writes its Range, as `<start>:<end>`
\* with an end and `<start>:` without; the numerals read back as the
\* numbers.
C20_RangeForm ==
    (out.t = "Write" /\ cmds[1].kind \in {"Delete", "Shuffle"}) =>
        /\ Len(out.bytes) > 8
        /\ out.bytes[Len(out.bytes)] = "\n"
        /\ SubSeq(out.bytes, 1, 7) =
             IF cmds[1].kind = "Delete"
             THEN <<"d","e","l","e","t","e"," ">>
             ELSE <<"s","u","f","f","l","e"," ">>
        /\ With(SubSeq(out.bytes, 8, Len(out.bytes) - 1), LAMBDA s :
              IF cmds[1].kind = "Shuffle" THEN RangeText(s, cmds[1].range)
              ELSE IF cmds[1].s_or_r.t = "Single"
              THEN Decimal(s, cmds[1].s_or_r.val)
              ELSE RangeText(s, cmds[1].s_or_r.r))

\* Delete of the range from 12 on was dispatched.
C20_Witness ==
    /\ cmds = <<[kind |-> "Delete",
                 s_or_r |-> [t |-> "Range",
                             r |-> [start |-> 12, end |-> None]]]>>
    /\ out = Written(<<"d","e","l","e","t","e"," ","1","2",":","\n">>)

---------------------------------------------------------------------------
(* Claims C21..C30.                                                        *)

\* C21: dispatching Volume(v) writes `setvol <min(v, 100)>\n`: the volume
\* is clamped at 100 for every v in 0..255.
C21_VolumeClamped ==
    (out # NoRes /\ cmds[1].kind = "Volume") =>
        out = Line(<<<<"s","e","t","v","o","l">>, FmtNat(Min(cmds[1].n, 100))>>)

\* C22: parse_error decodes `ACK [<code>@<index>] {<name>} <message>\n`
\* into CmdError{error_type, command_no, command_name, message_text} with
\* error_type from the table 1..5, 50..56; a code outside the table is a
\* decode error.
C22_AckDecoded ==
    (dec # NoRes /\ reply.kind = "ack") =>
        IF CmdErrorType_from_code(reply.code) = None THEN dec.t = "Error"
        ELSE dec = Done(<<>>, [error_type |->
                                   CmdErrorType_from_code(reply.code)[1],
                               command_no |-> reply.index,
                               command_name |-> reply.name,
                               message_text |-> reply.message])

\* The same with a name of at least one byte.
C22_NamedAckDecoded == reply.kind = "ack" /\ reply.name # <<>> => C22_AckDecoded

\* C23: the value of a flag line (repeat, random, single, consume) is
\* accepted only when it is exactly `0` (false) or `1` (true); any other
\* value on a complete line is a decode error and never sets the flag.
C23_FlagExact ==
    (dec # NoRes /\ reply.kind = "flag") =>
        IF reply.value \in {<<"0">>, <<"1">>}
        THEN /\ dec.t = "Done"
             /\ dec.o.status[StatusTable[reply.alt].field] =
                    (reply.value = <<"1">>)
        ELSE dec.t = "Error"

\* The Duration of a time field of a Status: elapsed is a Duration and
\* duration an Option of one.
TimeOf(status, field) ==
    IF field \in StatusOptional THEN status[field][1] ELSE status[field]

\* C24: parse_time turns `<secs>.<frac>` into secs seconds and
\* frac * 10^(9-L) nanoseconds, L the length of the fractional digit run;
\* for every accepted input the nanoseconds are below 10^9 and the scale
\* 10^L fits in 32 bits.
C24_TimeScaled ==
    (dec # NoRes /\ reply.kind = "time") =>
        /\ dec.t \in {"Done", "Error"}
        /\ dec.t = "Done" =>
             /\ Len(reply.value.frac) <= 9
             /\ TimeOf(dec.o.status, StatusTable[reply.alt].field) =
                  [secs |-> reply.value.secs,
                   nanos |-> ToNat(reply.value.frac)
                               * Pow10(9 - Len(reply.value.frac))]
             /\ TimeOf(dec.o.status, StatusTable[reply.alt].field).nanos
                  < Pow10(9)

\* The same for fractional runs of at most nine digits.
C24_TimeScaledTo9 ==
    (reply.kind = "time" /\ Len(reply.value.frac) <= 9) => C24_TimeScaled

\* C25: when the decoder succeeds inside Buffer::parse the cursor advances
\* by exactly the number of bytes the decoder consumed: the view of the
\* buffer afterwards is the unconsumed suffix, and the cursor does not
\* exceed the stored length.
C25_CursorAdvanced ==
    [][(pc \in {"handshake", "reading"} /\ buf' # buf /\ last' = "Done") =>
          With(Parser(pc, cmds, BufferView(buf', pos)), LAMBDA r :
              /\ pos' = pos + (Len(BufferView(buf', pos)) - Len(r.rest))
              /\ BufferView(buf', pos') = r.rest
              /\ pos' <= Len(buf'))]_vars

\* The commands without a payload.
NoPayloadKinds ==
    {"ClearError", "Consume", "Crossfade", "MixRampDB", "MixRampDelay",
     "Random", "Repeat", "Volume", "Single", "ReplayGainMode", "Next",
     "Pause", "Play", "PlayId", "Previous", "Stop"}

\* C26: every command without a payload decodes to Blank with the whole
\* input left: nothing is consumed, whatever the input (the empty one
\* included), and the result is never Incomplete.
C26_BlankConsumesNothing ==
    (dec # NoRes /\ cmds[1].kind \in NoPayloadKinds) =>
        /\ dec.t = "Done"
        /\ dec.o = Blank
        /\ dec.rest = buf

\* Volume was decoded on the empty input.
C26_Witness ==
    /\ cmds[1].kind = "Volume"
    /\ buf = <<>>
    /\ dec = Done(<<>>, Blank)

\* The write calls of the dispatch recorded in out, in order.
WritesOf(o) ==
    IF o.of = "Command" THEN Command_writes(cmds[1])
    ELSE <<TagListBegin>>
         \o Concat([k \in 1..Len(cmds) |-> Command_writes(cmds[k])])
         \o <<TagListEnd>>

\* C27: Command::dispatch and CommandList::dispatch return the Err of the
\* sink as soon as a write is rejected, having written what the earlier
\* writes wrote and nothing after it; they return Ok only if every write
\* succeeded, and then everything is written.
C27_StopsAtFailure ==
    out # NoRes =>
        IF out.failAt \in 1..Len(WritesOf(out))
        THEN /\ out.d.res = "Err"
             /\ out.d.written =
                  Concat(SubSeq(WritesOf(out), 1, out.failAt - 1))
        ELSE /\ out.d.res = "Ok"
             /\ out.d.written = Concat(WritesOf(out))

\* A list of Priority with two song groups and Status met the failure at
\* the write of the second song group.
C27_Witness ==
    /\ out # NoRes
    /\ out.of = "CommandList"
    /\ cmds = <<[kind |-> "Priority", priority |-> 255,
                 songs |-> PrioritySongs], CmdStatus>>
    /\ out.failAt = 4
    /\ out.d.res = "Err"
    /\ out.d.written =
         TagListBegin \o <<"p","r","i","o"," ","2","5","5"," ","1","0">>

\* C28: the version Client::connect stores is the one parsed from the
\* greeting, and Client::version gives that value after any run_commands
\* calls, successful or failed.
C28_VersionKept ==
    /\ [](pc = "idle" /\ calls = 0 =>
            /\ reply.kind = "greeting"
            /\ parse_handshake(reply.bytes).t = "Done"
            /\ version = Some(parse_handshake(reply.bytes).o)
            /\ reply.bytes = GreetingOk => version = Some(Version_0_12_2))
    /\ [][version # None => version' = version]_vars

\* The second run_commands call on a connection has returned an error.
C28_Witness ==
    /\ pc = "idle"
    /\ calls = 2
    /\ res.t = "Err"
    /\ version = Some([major |-> 0, minor |-> 12, patch |-> 2])

\* C30: a successful Buffer::fetch leaves the bytes stored before as they
\* were, appends exactly the bytes the read returned, grows the length by
\* the count it returns and returns the count read; so the store is the
\* concatenation, in order, of what the reads returned.
C30_FetchAppends ==
    /\ [][(pc \in {"handshake", "reading"} /\ buf' # buf) =>
            /\ lastAmt' = Len(inflight) - Len(inflight')
            /\ inflight = SliceTo(inflight, lastAmt') \o inflight'
            /\ buf' = buf \o SliceTo(inflight, lastAmt')
            /\ Len(buf') = Len(buf) + lastAmt']_vars
    /\ [](pc = "handshake" /\ ~srvClosed => buf \o inflight = reply.bytes)

\* Several reads have filled the store with the first bytes of the
\* greeting.
C30_Witness ==
    /\ pc = "handshake"
    /\ lastAmt = 1
    /\ buf = <<"O","K"," ","M","P">>
    /\ inflight # <<>>

\* What Buffer::parse of a connection running alone has made of the store
\* b of its current connect (at = "handshake") or run_commands call.
Alone(at, list, b) == Parser(at, list, b)

\* C29: with two connections whose cycles interleave, each connection's
\* decode uses its own buffer and bytes only: its store and the bytes still
\* on their way to it are always bytes of the stream sent to it, in order,
\* and what it has obtained is what it obtains alone on that stream.
C29_OwnBytesOnly ==
    /\ [][\A c \in Conns :
             \/ pc[c] = "init"
             \/ IF pc[c] = "idle" /\ pc'[c] = "reading"
                THEN buf'[c] \o inflight'[c] = inflight[c] \o reply'[c].bytes
                ELSE buf'[c] \o inflight'[c] = buf[c] \o inflight[c]]_vars
    /\ [](\A c \in Conns :
            (pc[c] # "init" /\ buf[c] # <<>>) =>
              With(Alone(IF calls[c] = 0 THEN "handshake" ELSE "reading",
                         cmds[c], buf[c]),
                   LAMBDA r :
                     /\ last[c] = r.t
                     /\ r.t = "Incomplete" => pc[c] \in {"handshake", "reading"}
                     /\ r.t = "Error" =>
                          res[c] = [t |-> "Err", e |-> "Parse", kind |-> r.kind]
                     /\ (r.t = "Done" /\ calls[c] = 0) =>
                          version[c] = Some(r.o) /\ res[c] = [t |-> "Ok", v |-> r.o]
                     /\ (r.t = "Done" /\ calls[c] > 0) => response[c] = r.o))

\* Connection 1 is in the middle of its greeting while connection 2, whose
\* greeting is another one, has returned from a run_commands call.
C29_Witness ==
    /\ pc[1] = "handshake"
    /\ buf[1] = <<"O","K"," ","M","P">>
    /\ reply[1].bytes = GreetingBogus
    /\ pc[2] = "idle"
    /\ calls[2] = 1
    /\ last[2] = "Done"

---------------------------------------------------------------------------
(* Claims C31..C38.                                                        *)

\* C31: Buffer::fetch grows the capacity only when the store is full, and
\* then by the block size; one fetch appends at most block_size bytes and
\* at most the free capacity (with block size 2 a slice of 3 bytes gives 2
\* bytes per fetch); the length never exceeds the capacity.
C31_GrowsByBlock ==
    [][/\ cap' = cap \/ (Len(buf) = cap /\ cap' = cap + TestBlockSize)
       /\ Len(buf') - Len(buf) <= TestBlockSize
       /\ Len(buf') - Len(buf) <= cap' - Len(buf)
       /\ (Len(reply'.bytes) = 3 /\ Len(buf) \in {0, 2}) =>
             Len(buf') - Len(buf) = 2
       /\ Len(buf') <= cap']_vars

\* The same, leaving out the amount the capacity grows by and the limit of
\* one block per fetch.
C31_WithinCapacity ==
    [][/\ cap' = cap \/ Len(buf) = cap
       /\ Len(buf') - Len(buf) <= cap' - Len(buf)
       /\ Len(buf') <= cap']_vars

\* C32: when the decoder reports malformed input Buffer::parse returns
\* that error at once: after the first Error there is no further fetch and
\* no further decoder invocation, and every decoder invocation comes after
\* a fetch made since the invocation before it.
C32_ErrorReturnsAtOnce ==
    /\ [](last = "Error" =>
            /\ pc = "returned"
            /\ res.t = "Error"
            /\ res.kind = Parser(IF reply.kind = "greeting" THEN "handshake"
                                 ELSE "reading", cmds, BufferView(buf, pos)).kind)
    /\ [][last = "Error" => calls' = calls /\ buf' = buf]_vars
    /\ [][calls'.parser # calls.parser =>
            /\ calls.fetch = calls.parser + 1
            /\ calls'.fetch = calls.fetch]_vars

\* The run on `OK MPD bogus\n` returned the error at its fourth turn.
C32_Witness ==
    /\ reply.bytes = GreetingBogus
    /\ last = "Error"
    /\ pc = "returned"
    /\ calls = [fetch |-> 4, parser |-> 4]

\* The time line of the reply on its own, in front of what follows it.
TimeLineOf(r) == FieldLine(StatusTable, TimeAlt, r.value)

\* C33: a `time: <value>` line of a status reply whose value holds no
\* carriage return is consumed and leaves every field of the accumulator
\* as it was; the decoder's outcome is the one of the reply without the
\* line.
C33_TimeLineDiscarded ==
    (dec # NoRes /\ \A k \in 1..Len(reply.value) : reply.value[k] # "\r") =>
        /\ dec = Command_parse_response(cmds[1], reply.plain)
        /\ \A acc \in {MaybeStatus_default,
                       [MaybeStatus_default EXCEPT !["elapsed"] =
                            Some([secs |-> 2, nanos |-> 5])]} :
              parse_single_status_response(TimeLineOf(reply) \o TagListOk, acc)
                = [t |-> "Done", rest |-> TagListOk, acc |-> acc]

\* C33 as the claim has it: whatever the value of the time line is.
C33_AnyTimeLineDiscarded ==
    dec # NoRes => dec = Command_parse_response(cmds[1], reply.plain)

\* The reply of the test, its time line `80:302` in its place, decoded to
\* the Status of the test.
C33_Witness ==
    /\ reply.bytes = StatusPayloadA \o TagListOk
    /\ reply.bytes # reply.plain
    /\ dec.t = "Done"
    /\ dec.o.kind = "Status"
    /\ dec.o.status.elapsed = [secs |-> 80, nanos |-> 74000000]

\* C34: when the source's read fails during Buffer::fetch the buffer is
\* left as it was before the call: the same bytes, the same length and the
\* same cursor.
C34_FailedReadKeepsBuffer ==
    [][(ioErr' = "read" /\ ioErr # "read") =>
          /\ buf' = buf
          /\ Len(buf') = Len(buf)
          /\ pos' = pos
          /\ BufferView(buf', pos') = BufferView(buf, pos)]_vars

\* A read failed on a full buffer that held bytes, its cursor off the
\* start: the Vec was grown and holds what it held.
C34_Witness ==
    /\ ioErr = "read"
    /\ buf = <<"1", "0", "3", "4", "7">>
    /\ pos = 2
    /\ cap > Len(buf)

\* C35: a complete status line whose field name is recognized and whose
\* value is malformed or cut short (`state: p`, `elapsed: 80`, `repeat: `)
\* never makes the status decoder answer that it needs more input: the
\* outcome is decided from the bytes present.
C35_DecidedFromBytesPresent ==
    (dec # NoRes /\ reply.kind = "short") => dec.t # "Incomplete"

\* A malformed value that is no leading part of a valid one is decided.
C35_ForeignValueDecided ==
    (dec # NoRes /\ reply.kind = "short" /\ reply.value = <<"x">>) =>
        dec.t = "Error"

\* The wire command name of a line: its bytes up to the first blank or
\* the end of the line.
WireName(bytes) ==
    SliceTo(bytes, (CHOOSE k \in 1..(Len(bytes) + 1) :
                      /\ k = Len(bytes) + 1 \/ bytes[k] \in {" ", "\n"}
                      /\ \A j \in 1..(k - 1) : bytes[j] \notin {" ", "\n"}) - 1)

\* The variants other than c's own that serialize with c's wire name.
SameName(c, line) ==
    {b.kind : b \in {x \in Commands :
                        /\ x.kind # c.kind
                        /\ Command_dispatch(x).t = "Write"
                        /\ WireName(Command_dispatch(x).bytes) = WireName(line)}}

\* C36: apart from Count and GroupCount no two distinct Command variants
\* serialize with the same wire command name; PlaylistFind and
\* PlaylistSearch with equal arguments produce different lines.
C36_DistinctWireNames ==
    out.t = "Write" =>
        /\ SameName(cmds[1], out.bytes)
             \subseteq (IF cmds[1].kind \in {"Count", "GroupCount"}
                        THEN {"Count", "GroupCount"} ELSE {})
        /\ cmds[1].kind = "PlaylistSearch" =>
              Command_dispatch([kind |-> "PlaylistFind",
                                tag |-> TagType_fmt(cmds[1].tag),
                                needle |-> cmds[1].needle]).bytes # out.bytes

\* Count and GroupCount are the one pair that shares a name by design.
C36_CountSharesName ==
    (out.t = "Write" /\ cmds[1].kind = "GroupCount") =>
        "Count" \in SameName(cmds[1], out.bytes)

\* C36, its second part alone: PlaylistSearch and the PlaylistFind of the
\* same tag and needle produce different lines.
C36_FindAndSearchDiffer ==
    (out.t = "Write" /\ cmds[1].kind = "PlaylistSearch") =>
        Command_dispatch([kind |-> "PlaylistFind",
                          tag |-> TagType_fmt(cmds[1].tag),
                          needle |-> cmds[1].needle]).bytes # out.bytes

\* A line no byte of which any alternative takes.
ForeignLine == <<"x", "\n">>

C38_NeverReturnsIncomplete ==
    /\ [](pc = "returned" => last \in {"Done", "Error"} /\ res.t = last)
    /\ [][(calls'.parser # calls.parser /\ last' = "Incomplete") =>
             pc' = "loop" /\ res' = NoRes]_vars

\* The status reply read in three parts: Incomplete twice, then the return
\* of Done.
C38_Witness ==
    /\ reply.kind = "valid"
    /\ pc = "returned"
    /\ last = "Done"
    /\ calls = [fetch |-> 3, parser |-> 3]

===========================================================================
